---- MODULE Spec2Model ----
\* State-machine model of the smart_notebook backend: the Postgres tables
\* behind DBWrapper, the chat orchestrator (chat_endpoint + stream_generator)
\* and the thread / bookmark handlers of routers/threads.py, routers/bookmarks.py
\* and routers/chat.py.
\*
\* Text is modelled as a sequence of one-character strings, so concatenation
\* (Python +=) is \o and the empty string is << >>.  A SQL NULL in a text
\* column is the distinguished value NULL.  A row's created_at is its position
\* in the table sequence (rows are appended in insertion order).
EXTENDS Integers, Sequences, FiniteSets, TLC

VARIABLES users, threads, messages, bookmarked_threads, bookmarks, nextId, now, req

vars == <<users, threads, messages, bookmarked_threads, bookmarks, nextId, now, req>>

\* ---------------------------------------------------------------- bounds
\* Largest number of fragments the LLM streams of one chat turn deliver in total.
MaxFrags == 2

\* Largest number of messages a thread holds when a chat turn starts on it.
MaxHistory == 10

\* Largest number of execute() calls made on one Table object.
MaxExecutes == 2

\* ---------------------------------------------------------------- domains
Reqs == {1, 2}
Users == {"u1", "u2"}
NULL == <<"NULL">>
EmptyText == << >>
Fragments == {<<"x">>, <<"y">>}
Contents == {<<"h">>}
Translations == {<<"z">>, EmptyText}

\* Exception messages (str(e)), as sequences of words.
DbDown == <<"could not connect to server">>
DbPipe == <<"SSL SYSCALL error:", "Broken pipe">>
LlmDown == <<"Connection error.">>
LlmPipe == <<"socket.send() raised exception">>
FkViolation == <<"violates foreign key constraint">>
UniqueViolation == <<"duplicate key value violates unique constraint">>
OK == <<"ok">>
DbOutcomes == {OK, DbDown, DbPipe}
HandlerOutcomes == {OK, DbDown}
LlmFaults == {LlmDown, LlmPipe}

\* ---------------------------------------------------------------- helpers
Truthy(text) == text # NULL /\ text # EmptyText

RECURSIVE Concat(_)
Concat(ss) == IF ss = << >> THEN << >> ELSE Head(ss) \o Concat(Tail(ss))

Last(s) == s[Len(s)]

\* ---------------------------------------------------------------- tables
\* One row of users (rows in insertion order); last_active_at is a reading of
\* the clock `now`.
UserRow(id, user_type, last_active_at) ==
    [id |-> id, user_type |-> user_type, last_active_at |-> last_active_at]

\* SELECT ... FROM threads WHERE id = tid  (DBWrapper.Table.execute, default branch)
SelectThread(tid) == IF tid \in DOMAIN threads THEN <<[id |-> tid, user_id |-> threads[tid]]>> ELSE << >>

\* SELECT * FROM messages WHERE id = mid
SelectMessageById(mid) == SelectSeq(messages, LAMBDA m : m.id = mid)

\* SELECT * FROM messages WHERE thread_id = tid ORDER BY created_at
SelectMessagesOfThread(tid) == SelectSeq(messages, LAMBDA m : m.thread_id = tid)

\* INSERT INTO messages: the row gets a fresh uuid4 id; thread_id REFERENCES threads(id).
MessageRow(id, tid, role, content, lang) ==
    [id |-> id, thread_id |-> tid, role |-> role, content |-> content,
     original_language |-> lang, translated_content |-> NULL]

InsertMessageOutcome(tid, f) == IF f # OK THEN f ELSE IF tid \in DOMAIN threads THEN OK ELSE FkViolation

\* A write that re-inserts the row with its new value instead of changing it in place.
UpdateMessage_Reinsert(mid, col, val) ==
    messages \o [i \in 1..Len(SelectMessageById(mid)) |-> [SelectMessageById(mid)[i] EXCEPT ![col] = val]]

\* An update that finds its row by thread and role instead of by id.
UpdateMessage_ByThreadAndRole(mid, col, val) ==
    [i \in 1..Len(messages) |->
        IF \E j \in 1..Len(messages) : /\ messages[j].id = mid
                                       /\ messages[j].thread_id = messages[i].thread_id
                                       /\ messages[j].role = messages[i].role
        THEN [messages[i] EXCEPT ![col] = val] ELSE messages[i]]

\* UPDATE messages SET col = val WHERE id = mid  (zero rows matched is no error)
UpdateMessage(mid, col, val) ==
    [i \in 1..Len(messages) |->
        IF messages[i].id = mid THEN [messages[i] EXCEPT ![col] = val] ELSE messages[i]]

\* A messages table whose rows outlive their thread.
CascadeMessages_Kept(tid) == messages

\* DELETE FROM threads WHERE id = tid, with ON DELETE CASCADE on messages,
\* bookmarked_threads and bookmarks.
CascadeMessages(tid) == SelectSeq(messages, LAMBDA m : m.thread_id # tid)
CascadeBookmarkedThreads(tid) == SelectSeq(bookmarked_threads, LAMBDA b : b # tid)
CascadeBookmarks(tid) == {b \in bookmarks : b.thread_id # tid}

\* One entry of a request's statement log: every statement handed to execute().
Stmt(op, table, col, val, out) == [op |-> op, table |-> table, col |-> col, val |-> val, out |-> out]

\* ---------------------------------------------------------------- requests
NoUser == "None"
Sentinel == "-99"
HistoryLimit == 10

\* A request slot before any request has arrived on it.
NoReq ==
    [kind |-> "none", pc |-> "idle", user_id |-> NoUser, thread_id |-> "", action |-> "",
     message_id |-> 0, bookmark_id |-> "", status |-> 0, body |-> << >>, log |-> << >>, llm |-> << >>,
     user_content |-> EmptyText, translate_to_english |-> FALSE,
     auto_translate_responses |-> FALSE, user_msg_id |-> 0, asst_msg_id |-> 0,
     user_translation |-> EmptyText, llm_input_content |-> EmptyText,
     assistant_content |-> EmptyText, assistant_translation |-> EmptyText,
     frames |-> << >>, nfrag |-> 0, cancelled |-> FALSE, role |-> "", found |-> "",
     after |-> {}, x_user_id |-> NoUser, user_res |-> << >>,
     table_name |-> "", attrs |-> [a \in {} |-> 0], executed |-> << >>, raised |-> << >>]

\* A request arrives on a free slot; `after` remembers, for a bookmark request,
\* which requests had already been answered at that moment.
Finished(q) == q.pc \in {"responded", "closed"}
Arrival(kind, pc) == [NoReq EXCEPT !.kind = kind, !.pc = pc]
ArrivalAfter(kind, pc) == [Arrival(kind, pc) EXCEPT !.after = {s \in Reqs : Finished(req[s])}]

\* What the ownership lookup of a handler returned (its local `thread`).
Found(thread, user_id) ==
    IF thread = << >> THEN "none" ELSE IF thread[1].user_id # user_id THEN "other" ELSE "own"

Frame(k, v) == [k |-> k, v |-> v]
Call(fn, arg, target) == [fn |-> fn, arg |-> arg, target |-> target]

\* raise HTTPException(status_code = s): the handler ends with that response.
Respond(q, s, body) == [q EXCEPT !.pc = "responded", !.status = s, !.body = body]

\* The exception clauses of the handlers in threads.py and bookmarks.py:
\* an HTTPException is re-raised as it is (except HTTPException as he: raise he),
\* anything else becomes a 500 (except Exception as e: raise HTTPException(500)).
RethrowHttp(s) == s
HandlerExcept(q, msg) == Respond(q, 500, << >>)

\* str(e) mentions one of the two markers stream_generator treats as a client disconnect.
IsDisconnectMessage(msg) ==
    \E i \in 1..Len(msg) : msg[i] \in {"socket.send() raised exception", "Broken pipe"}

\* A handler that starts the generation step over instead of closing.
ExceptHandler_Retry(q, msg) == [q EXCEPT !.pc = "y_phase_responding"]

\* except Exception as e: of stream_generator (chat.py 183-195)
ExceptHandler(q, msg) ==
    IF IsDisconnectMessage(msg)
    THEN [q EXCEPT !.pc = "closed"]
    ELSE [q EXCEPT !.pc = "closed", !.frames = Append(@, Frame("error", msg))]

\* ---------------------------------------------------------------- chat_endpoint
\* POST /chat arrives, the caller already resolved by get_current_user_id.
ChatThreadArgs == {"t1", "t0", "t9", Sentinel}

\* The two flags of a ChatRequest: <<translateToEnglish, autoTranslateResponses>>.
ChatFlags == BOOLEAN \X BOOLEAN

ReceiveChatFrom(r, callers, targets, flags) ==
    /\ req[r].pc = "idle"
    /\ \E u \in callers, t \in targets, c \in Contents, fl \in flags :
          req' = [req EXCEPT ![r] = [Arrival("chat", "chat_endpoint") EXCEPT
                      !.user_id = u, !.thread_id = t, !.user_content = c,
                      !.translate_to_english = fl[1], !.auto_translate_responses = fl[2]]]
    /\ UNCHANGED <<users, threads, messages, bookmarked_threads, bookmarks, nextId, now>>

ReceiveChat(r) == ReceiveChatFrom(r, Users, ChatThreadArgs, ChatFlags)

\* chat_endpoint without the comparison of thread.user_id with the caller.
ChatEndpointCheck_NoOwnerTest(q, f) ==
    LET thread == SelectThread(q.thread_id)
        q0 == [q EXCEPT !.log = Append(@, Stmt("select", "threads", "id", q.thread_id, f))]
        q1 == [q0 EXCEPT !.found = Found(thread, q.user_id)]
    IN  IF f # OK THEN Respond(q0, 500, << >>)
        ELSE IF thread = << >> THEN Respond(q1, 404, << >>)
        ELSE [q1 EXCEPT !.status = 200, !.pc = "sg_verify"]

\* chat.py 198-229: verify ownership BEFORE streaming.
ChatEndpointCheck(q, f) ==
    LET thread == SelectThread(q.thread_id)
        q0 == [q EXCEPT !.log = Append(@, Stmt("select", "threads", "id", q.thread_id, f))]
        q1 == [q0 EXCEPT !.found = Found(thread, q.user_id)]
    IN  IF f # OK THEN Respond(q0, 500, << >>)
        ELSE IF thread = << >> THEN Respond(q1, 404, << >>)
        ELSE IF thread[1].user_id # q.user_id THEN Respond(q1, 403, << >>)
        ELSE [q1 EXCEPT !.status = 200, !.pc = "sg_verify"]

chat_endpoint(r) ==
    /\ req[r].pc = "chat_endpoint"
    /\ \E f \in DbOutcomes : req' = [req EXCEPT ![r] = ChatEndpointCheck(@, f)]
    /\ UNCHANGED <<users, threads, messages, bookmarked_threads, bookmarks, nextId, now>>

\* ---------------------------------------------------------------- stream_generator
DbUnchanged == UNCHANGED <<users, threads, messages, bookmarked_threads, bookmarks, nextId, now>>

Logged(q, op, table, col, val, out) == [q EXCEPT !.log = Append(@, Stmt(op, table, col, val, out))]

\* chat.py 28-47: step 0, the orchestrator's own ownership check.  A failing
\* lookup is printed and the turn goes on.
VerifyOwnership(q, f) ==
    LET t_res == SelectThread(q.thread_id)
        q1 == Logged(q, "select", "threads", "id", q.thread_id, f)
    IN  IF f # OK THEN [q1 EXCEPT !.pc = "sg_create_user"]
        ELSE IF /\ t_res # << >>
                /\ t_res[1].user_id # NoUser
                /\ t_res[1].user_id # q.user_id
        THEN [q1 EXCEPT !.pc = "closed",
                        !.frames = Append(@, Frame("error", <<"Unauthorized access to this thread">>))]
        ELSE [q1 EXCEPT !.pc = "sg_create_user"]

sg_VerifyOwnership(r) ==
    /\ req[r].pc = "sg_verify"
    /\ IF req[r].thread_id # "" /\ req[r].thread_id # Sentinel
       THEN \E f \in DbOutcomes : req' = [req EXCEPT ![r] = VerifyOwnership(@, f)]
       ELSE req' = [req EXCEPT ![r].pc = "sg_create_user"]
    /\ DbUnchanged

\* Step 1 without the confirmation frame.
UserMessageCreated_NoFrame(q, id) == [q EXCEPT !.user_msg_id = id, !.pc = "y_user_message"]

\* chat.py 49-70: step 1, insert the user message and confirm it to the caller.
UserMessageCreated(q, id) ==
    [q EXCEPT !.user_msg_id = id, !.pc = "y_user_message",
              !.frames = Append(@, Frame("USER_MESSAGE",
                  [id |-> id, content |-> q.user_content, translatedContent |-> EmptyText]))]

sg_CreateUserMessage(r) ==
    /\ req[r].pc = "sg_create_user"
    /\ \E f \in DbOutcomes :
        LET q == req[r]
            out == InsertMessageOutcome(q.thread_id, f)
            q1 == Logged(q, "insert", "messages", "thread_id", q.thread_id, out)
            lang == IF q.translate_to_english THEN "ko" ELSE "en"
        IN  IF out = OK
            THEN /\ messages' = Append(messages, MessageRow(nextId, q.thread_id, "user", q.user_content, lang))
                 /\ nextId' = nextId + 1
                 /\ req' = [req EXCEPT ![r] = UserMessageCreated(q1, nextId)]
            ELSE /\ req' = [req EXCEPT ![r] = ExceptHandler(q1, out)]
                 /\ UNCHANGED <<messages, nextId>>
    /\ UNCHANGED <<users, threads, bookmarked_threads, bookmarks, now>>

\* chat.py 106-111: step 3, insert the assistant placeholder and announce its id.
PlaceholderCreated(q, id) ==
    [q EXCEPT !.asst_msg_id = id, !.pc = "y_assistant_message_id",
              !.frames = Append(@, Frame("ASSISTANT_MESSAGE_ID", id))]

CreateAssistantPlaceholder(r, q) ==
    /\ \E f \in DbOutcomes :
        LET out == InsertMessageOutcome(q.thread_id, f)
            q1 == Logged(q, "insert", "messages", "thread_id", q.thread_id, out)
        IN  IF out = OK
            THEN /\ messages' = Append(messages, MessageRow(nextId, q.thread_id, "assistant", EmptyText, NULL))
                 /\ nextId' = nextId + 1
                 /\ req' = [req EXCEPT ![r] = PlaceholderCreated(q1, nextId)]
            ELSE /\ req' = [req EXCEPT ![r] = ExceptHandler(q1, out)]
                 /\ UNCHANGED <<messages, nextId>>
    /\ UNCHANGED <<users, threads, bookmarked_threads, bookmarks, now>>

\* The generation input defaulting to the (still empty) translation.
GenerationInputDefault_Translation(q) == q.user_translation

\* chat.py 72-79: after the first USER_MESSAGE frame the generation input
\* defaults to the raw content; with translate_to_english the translating
\* phase is announced, otherwise the turn goes straight to step 3.
GenerationInputDefault(q) == q.user_content

sg_AfterUserMessage(r) ==
    /\ req[r].pc = "y_user_message"
    /\ LET q == [req[r] EXCEPT !.llm_input_content = GenerationInputDefault(req[r])]
       IN  IF q.translate_to_english
           THEN /\ req' = [req EXCEPT ![r] = [q EXCEPT !.pc = "y_phase_translating",
                               !.frames = Append(@, Frame("PHASE", "TRANSLATING"))]]
                /\ DbUnchanged
           ELSE CreateAssistantPlaceholder(r, q)

\* chat.py 82-84: the streaming translation request is issued.
sg_StartUserTranslation(r) ==
    /\ req[r].pc = "y_phase_translating"
    /\ req' = [req EXCEPT ![r].pc = "utr",
                          ![r].llm = Append(@, Call("translate_text_stream", req[r].user_content, "English"))]
    /\ DbUnchanged

\* chat.py 85-86: one fragment arrives, is accumulated and forwarded.
AccumulateUserTranslation(q, c) == q.user_translation \o c

sg_UserTranslationFragment(r) ==
    /\ req[r].pc = "utr"
    /\ req[r].nfrag < MaxFrags
    /\ \E c \in Fragments :
          req' = [req EXCEPT ![r] = [@ EXCEPT !.user_translation = AccumulateUserTranslation(req[r], c),
                                              !.nfrag = @ + 1,
                                              !.frames = Append(@, Frame("fragment", c))]]
    /\ DbUnchanged

\* The LLM gateway raises while a stream is awaited.
sg_StreamFails(r) ==
    /\ req[r].pc \in {"utr", "gen", "rtr"}
    /\ \E msg \in LlmFaults : req' = [req EXCEPT ![r] = ExceptHandler(@, msg)]
    /\ DbUnchanged

\* A full snapshot that carries no translation.
UserTranslationPersisted_EmptySnapshot(q) ==
    [q EXCEPT !.pc = "y_user_message_final",
              !.frames = Append(@, Frame("USER_MESSAGE",
                  [id |-> q.user_msg_id, content |-> q.user_content,
                   translatedContent |-> EmptyText]))]

\* chat.py 88-104: the translation stream ended: persist it, send the full
\* snapshot of the user message.
UserTranslationPersisted(q) ==
    [q EXCEPT !.pc = "y_user_message_final",
              !.frames = Append(@, Frame("USER_MESSAGE",
                  [id |-> q.user_msg_id, content |-> q.user_content,
                   translatedContent |-> q.user_translation]))]

sg_UserTranslationDone(r) ==
    /\ req[r].pc = "utr"
    /\ \E f \in DbOutcomes :
        LET q == req[r]
            q1 == Logged(q, "update", "messages", "id", q.user_msg_id, f)
        IN  IF f = OK
            THEN /\ messages' = UpdateMessage(q.user_msg_id, "translated_content", q.user_translation)
                 /\ req' = [req EXCEPT ![r] = UserTranslationPersisted(q1)]
            ELSE /\ req' = [req EXCEPT ![r] = ExceptHandler(q1, f)]
                 /\ UNCHANGED messages
    /\ UNCHANGED <<users, threads, bookmarked_threads, bookmarks, nextId, now>>

\* The raw content kept as the generation input after a translation.
GenerationInputTranslated_Raw(q) == q.user_content

\* chat.py 103-111: the translation becomes the generation input, then step 3.
GenerationInputTranslated(q) == q.user_translation

sg_AfterUserMessageFinal(r) ==
    /\ req[r].pc = "y_user_message_final"
    /\ CreateAssistantPlaceholder(r, [req[r] EXCEPT !.llm_input_content = GenerationInputTranslated(req[r])])

\* chat.py 113-114
sg_AfterAssistantMessageId(r) ==
    /\ req[r].pc = "y_assistant_message_id"
    /\ req' = [req EXCEPT ![r].pc = "y_phase_responding",
                          ![r].frames = Append(@, Frame("PHASE", "RESPONDING"))]
    /\ DbUnchanged

\* A window that keeps the oldest rows instead of the newest.
LastN_Oldest(s, n) == IF Len(s) <= n THEN s ELSE SubSeq(s, 1, n)

\* chat.py 116-148: the context window handed to generate_chat_stream.
LastN(s, n) == IF Len(s) <= n THEN s ELSE SubSeq(s, Len(s) - n + 1, Len(s))

HistoryEntry(msg, translate_to_english) ==
    [role |-> msg.role,
     content |-> IF msg.role = "user" /\ Truthy(msg.translated_content) /\ translate_to_english
                 THEN msg.translated_content ELSE msg.content]

FormattedHistory(q) ==
    LET history == LastN(SelectMessagesOfThread(q.thread_id), HistoryLimit)
        kept == SelectSeq(history, LAMBDA m : m.id # q.asst_msg_id /\ m.id # q.user_msg_id)
    IN  [i \in 1..Len(kept) |-> HistoryEntry(kept[i], q.translate_to_english)]
        \o <<[role |-> "user", content |-> q.llm_input_content]>>

sg_StartGeneration(r) ==
    /\ req[r].pc = "y_phase_responding"
    /\ \E f \in DbOutcomes :
        LET q == req[r]
            q1 == Logged(q, "select", "messages", "thread_id", q.thread_id, f)
        IN  IF f = OK
            THEN req' = [req EXCEPT ![r] = [q1 EXCEPT !.pc = "gen",
                            !.llm = Append(@, Call("generate_chat_stream", FormattedHistory(q), "model"))]]
            ELSE req' = [req EXCEPT ![r] = ExceptHandler(q1, f)]
    /\ DbUnchanged

\* A fragment put in front of the reply accumulated so far.
AccumulateReply_Prepend(q, c) == c \o q.assistant_content

\* chat.py 150-154: one reply fragment arrives, is accumulated and forwarded.
AccumulateReply(q, c) == q.assistant_content \o c

sg_GenerationFragment(r) ==
    /\ req[r].pc = "gen"
    /\ req[r].nfrag < MaxFrags
    /\ \E c \in Fragments :
          req' = [req EXCEPT ![r] = [@ EXCEPT !.assistant_content = AccumulateReply(req[r], c),
                                              !.nfrag = @ + 1,
                                              !.frames = Append(@, Frame("fragment", c))]]
    /\ DbUnchanged

\* A turn that translates its reply whatever the caller asked for.
ReplyPersisted_AlwaysTranslates(q) ==
    [q EXCEPT !.pc = "y_phase_translating_response",
              !.frames = Append(@, Frame("PHASE", "TRANSLATING_RESPONSE"))]

\* chat.py 156-163, 178: the reply stream ended: persist the reply, then either
\* announce the response translation or finish.
ReplyPersisted(q) ==
    IF q.auto_translate_responses
    THEN [q EXCEPT !.pc = "y_phase_translating_response",
                   !.frames = Append(@, Frame("PHASE", "TRANSLATING_RESPONSE"))]
    ELSE [q EXCEPT !.pc = "closed", !.frames = Append(@, Frame("DONE", << >>))]

sg_GenerationDone(r) ==
    /\ req[r].pc = "gen"
    /\ \E f \in DbOutcomes :
        LET q == req[r]
            q1 == Logged(q, "update", "messages", "id", q.asst_msg_id, f)
        IN  IF f = OK
            THEN /\ messages' = UpdateMessage(q.asst_msg_id, "content", q.assistant_content)
                 /\ req' = [req EXCEPT ![r] = ReplyPersisted(q1)]
            ELSE /\ req' = [req EXCEPT ![r] = ExceptHandler(q1, f)]
                 /\ UNCHANGED messages
    /\ UNCHANGED <<users, threads, bookmarked_threads, bookmarks, nextId, now>>

\* chat.py 165-169
sg_StartResponseTranslation(r) ==
    /\ req[r].pc = "y_phase_translating_response"
    /\ req' = [req EXCEPT ![r].pc = "rtr",
                          ![r].llm = Append(@, Call("translate_text_stream", req[r].assistant_content, "Korean"))]
    /\ DbUnchanged

\* A response translation that puts each new fragment in front of the others.
AccumulateResponseTranslation_Prepend(q, c) == c \o q.assistant_translation

\* chat.py 170-171
AccumulateResponseTranslation(q, c) == q.assistant_translation \o c

sg_ResponseTranslationFragment(r) ==
    /\ req[r].pc = "rtr"
    /\ req[r].nfrag < MaxFrags
    /\ \E c \in Fragments :
          req' = [req EXCEPT ![r] = [@ EXCEPT !.assistant_translation = AccumulateResponseTranslation(req[r], c),
                                              !.nfrag = @ + 1,
                                              !.frames = Append(@, Frame("fragment", c))]]
    /\ DbUnchanged

\* chat.py 173-178
sg_ResponseTranslationDone(r) ==
    /\ req[r].pc = "rtr"
    /\ \E f \in DbOutcomes :
        LET q == req[r]
            q1 == Logged(q, "update", "messages", "id", q.asst_msg_id, f)
        IN  IF f = OK
            THEN /\ messages' = UpdateMessage(q.asst_msg_id, "translated_content", q.assistant_translation)
                 /\ req' = [req EXCEPT ![r] = [q1 EXCEPT !.pc = "closed",
                                                 !.frames = Append(@, Frame("DONE", << >>))]]
            ELSE /\ req' = [req EXCEPT ![r] = ExceptHandler(q1, f)]
                 /\ UNCHANGED messages
    /\ UNCHANGED <<users, threads, bookmarked_threads, bookmarks, nextId, now>>

\* chat.py 180-182: the caller disconnects while the generator is suspended at a
\* yield or at an awaited stream read; the generator ends without a frame.
SuspensionPoints ==
    {"y_user_message", "y_phase_translating", "utr", "y_user_message_final",
     "y_assistant_message_id", "y_phase_responding", "gen",
     "y_phase_translating_response", "rtr"}

\* The cancellation is noted and the generator carries on.
Cancelled_Swallowed(q) == [q EXCEPT !.cancelled = TRUE]
Cancelled(q) == [q EXCEPT !.pc = "closed", !.cancelled = TRUE]

sg_Cancel(r) ==
    /\ req[r].pc \in SuspensionPoints
    /\ req' = [req EXCEPT ![r] = Cancelled(@)]
    /\ DbUnchanged

stream_generator(r) ==
    \/ sg_VerifyOwnership(r)
    \/ sg_CreateUserMessage(r)
    \/ sg_AfterUserMessage(r)
    \/ sg_StartUserTranslation(r)
    \/ sg_UserTranslationFragment(r)
    \/ sg_UserTranslationDone(r)
    \/ sg_AfterUserMessageFinal(r)
    \/ sg_AfterAssistantMessageId(r)
    \/ sg_StartGeneration(r)
    \/ sg_GenerationFragment(r)
    \/ sg_GenerationDone(r)
    \/ sg_StartResponseTranslation(r)
    \/ sg_ResponseTranslationFragment(r)
    \/ sg_ResponseTranslationDone(r)
    \/ sg_StreamFails(r)
    \/ sg_Cancel(r)

\* ---------------------------------------------------------------- ownership guard
\* The check every handler of threads.py / bookmarks.py runs first: 404 when no
\* thread has the id, 403 when its user_id is not the caller.
Guard(q, f, next) ==
    LET thread == SelectThread(q.thread_id)
        q0 == Logged(q, "select", "threads", "id", q.thread_id, f)
        q1 == [q0 EXCEPT !.found = Found(thread, q.user_id)]
    IN  IF f # OK THEN HandlerExcept(q0, f)
        ELSE IF thread = << >> THEN Respond(q1, RethrowHttp(404), << >>)
        ELSE IF thread[1].user_id # q.user_id THEN Respond(q1, RethrowHttp(403), << >>)
        ELSE [q1 EXCEPT !.pc = next]

\* ---------------------------------------------------------------- delete_thread
ThreadArgs == {"t1", "t9"}

ReceiveDeleteThread(r, callers, targets) ==
    /\ req[r].pc = "idle"
    /\ \E u \in callers, t \in targets :
          req' = [req EXCEPT ![r] = [Arrival("delete_thread", "dt_check") EXCEPT
                                          !.user_id = u, !.thread_id = t]]
    /\ DbUnchanged

\* threads.py 59-61: existence check
dt_Check(r) ==
    /\ req[r].pc = "dt_check"
    /\ \E f \in HandlerOutcomes :
        LET q0 == Logged(req[r], "select", "threads", "id", req[r].thread_id, f)
            check == SelectThread(q0.thread_id)
        IN  req' = [req EXCEPT ![r] =
                IF f # OK THEN HandlerExcept(q0, f)
                ELSE IF check = << >> THEN Respond([q0 EXCEPT !.found = "none"], RethrowHttp(404), << >>)
                ELSE [q0 EXCEPT !.pc = "dt_thread"]]
    /\ DbUnchanged

\* threads.py 70-77: fetch by id, compare user_id in Python
dt_Thread(r) ==
    /\ req[r].pc = "dt_thread"
    /\ \E f \in HandlerOutcomes : req' = [req EXCEPT ![r] = Guard(@, f, "dt_delete")]
    /\ DbUnchanged

\* threads.py 79-80: DELETE FROM threads WHERE id = thread_id (cascading)
dt_Delete(r) ==
    /\ req[r].pc = "dt_delete"
    /\ \E f \in HandlerOutcomes :
        LET q == req[r]
            q1 == Logged(q, "delete", "threads", "id", q.thread_id, f)
        IN  IF f = OK
            THEN /\ threads' = [t \in DOMAIN threads \ {q.thread_id} |-> threads[t]]
                 /\ messages' = CascadeMessages(q.thread_id)
                 /\ bookmarked_threads' = CascadeBookmarkedThreads(q.thread_id)
                 /\ bookmarks' = CascadeBookmarks(q.thread_id)
                 /\ req' = [req EXCEPT ![r] = Respond(q1, 200, << >>)]
            ELSE /\ req' = [req EXCEPT ![r] = HandlerExcept(q1, f)]
                 /\ UNCHANGED <<threads, messages, bookmarked_threads, bookmarks>>
    /\ UNCHANGED <<users, nextId, now>>

delete_thread(r) == dt_Check(r) \/ dt_Thread(r) \/ dt_Delete(r)

\* ---------------------------------------------------------------- translate_endpoint
MessageIdArgs == {1, 9}

ReceiveTranslate(r, callers, targets) ==
    /\ req[r].pc = "idle"
    /\ \E u \in callers, m \in targets :
          req' = [req EXCEPT ![r] = [Arrival("translate_endpoint", "tr_fetch") EXCEPT
                                          !.user_id = u, !.message_id = m]]
    /\ DbUnchanged

\* chat.py 319-320: the only clause is except Exception, which catches the
\* handler's own HTTPException too and answers every failure with a 500.
TranslateExcept(s) == 500

\* chat.py 273-280: fetch the message
tr_Fetch(r) ==
    /\ req[r].pc = "tr_fetch"
    /\ \E f \in HandlerOutcomes :
        LET q0 == Logged(req[r], "select", "messages", "id", req[r].message_id, f)
            res == SelectMessageById(q0.message_id)
        IN  req' = [req EXCEPT ![r] =
                IF f # OK THEN HandlerExcept(q0, f)
                ELSE IF res = << >> THEN Respond([q0 EXCEPT !.found = "none"], TranslateExcept(404), << >>)
                ELSE [q0 EXCEPT !.pc = "tr_thread", !.thread_id = res[1].thread_id,
                                !.role = res[1].role, !.user_content = res[1].content]]
    /\ DbUnchanged

\* chat.py 282-302: verify thread ownership, then ask for the translation
tr_Thread(r) ==
    /\ req[r].pc = "tr_thread"
    /\ \E f \in HandlerOutcomes :
        LET q == req[r]
            thread == SelectThread(q.thread_id)
            q0 == Logged(q, "select", "threads", "id", q.thread_id, f)
            q1 == [q0 EXCEPT !.found = Found(thread, q.user_id)]
        IN  req' = [req EXCEPT ![r] =
                IF f # OK THEN HandlerExcept(q0, f)
                ELSE IF thread = << >> THEN Respond(q1, TranslateExcept(404), << >>)
                ELSE IF thread[1].user_id # q.user_id THEN Respond(q1, TranslateExcept(403), << >>)
                ELSE [q1 EXCEPT !.pc = "tr_llm",
                         !.llm = Append(@, Call("translate_text", q.user_content,
                                     IF q.role = "user" THEN "English" ELSE "Korean"))]]
    /\ DbUnchanged

\* chat.py 302: the LLM call fails
tr_LlmFails(r) ==
    /\ req[r].pc = "tr_llm"
    /\ req' = [req EXCEPT ![r] = HandlerExcept(@, LlmDown)]
    /\ DbUnchanged

\* chat.py 302-307: the translation arrives and is written to the message
tr_Update(r) ==
    /\ req[r].pc = "tr_llm"
    /\ \E translation \in Translations, f \in HandlerOutcomes :
        LET q == req[r]
            q1 == Logged(q, "update", "messages", "id", q.message_id, f)
        IN  IF f = OK
            THEN /\ messages' = UpdateMessage(q.message_id, "translated_content", translation)
                 /\ req' = [req EXCEPT ![r] = [q1 EXCEPT !.pc = "tr_list"]]
            ELSE /\ req' = [req EXCEPT ![r] = HandlerExcept(q1, f)]
                 /\ UNCHANGED messages
    /\ UNCHANGED <<users, threads, bookmarked_threads, bookmarks, nextId, now>>

\* chat.py 309-317: return the thread's messages
tr_List(r) ==
    /\ req[r].pc = "tr_list"
    /\ \E f \in HandlerOutcomes :
        LET q == req[r]
            q1 == Logged(q, "select", "messages", "thread_id", q.thread_id, f)
        IN  req' = [req EXCEPT ![r] =
                IF f # OK THEN HandlerExcept(q1, f)
                ELSE Respond(q1, 200, SelectMessagesOfThread(q.thread_id))]
    /\ DbUnchanged

translate_endpoint(r) == tr_Fetch(r) \/ tr_Thread(r) \/ tr_LlmFails(r) \/ tr_Update(r) \/ tr_List(r)

\* ---------------------------------------------------------------- bookmarked threads
IsBookmarked(tid) == \E i \in 1..Len(bookmarked_threads) : bookmarked_threads[i] = tid

\* The table without its primary key.
InsertBookmarkedThreadOutcome_NoKey(tid, f) ==
    IF f # OK THEN f ELSE IF tid \notin DOMAIN threads THEN FkViolation ELSE OK

\* INSERT INTO bookmarked_threads: thread_id is the PRIMARY KEY and REFERENCES threads(id).
InsertBookmarkedThreadOutcome(tid, f) ==
    IF f # OK THEN f
    ELSE IF tid \notin DOMAIN threads THEN FkViolation
    ELSE IF IsBookmarked(tid) THEN UniqueViolation
    ELSE OK

\* SELECT * FROM bookmarked_threads WHERE thread_id = tid
SelectBookmarkedThread(tid) == SelectSeq(bookmarked_threads, LAMBDA b : b = tid)

\* POST /bookmarked-threads/{action} (threads.py), and the two fixed routes of
\* bookmarks.py with the same bodies.
BookmarkRequests ==
    {<<"toggle_bookmark_thread", "add">>, <<"toggle_bookmark_thread", "remove">>,
     <<"toggle_bookmark_thread", "clear">>, <<"add_bookmarked_thread", "add">>,
     <<"remove_bookmarked_thread", "remove">>}

ReceiveBookmarkThread(r) ==
    /\ req[r].pc = "idle"
    /\ \E u \in Users, t \in ThreadArgs, ka \in BookmarkRequests :
          req' = [req EXCEPT ![r] = [ArrivalAfter(ka[1], "bt_guard") EXCEPT
                                          !.user_id = u, !.thread_id = t, !.action = ka[2]]]
    /\ DbUnchanged

\* threads.py 163-180: the branch on the action, taken once the guard has passed.
Dispatch(q) ==
    IF q.action = "add" THEN [q EXCEPT !.pc = "bt_check"]
    ELSE IF q.action = "remove" THEN [q EXCEPT !.pc = "bt_delete"]
    ELSE Respond(q, RethrowHttp(400), << >>)

\* threads.py 154-161, bookmarks.py 127-134, 160-168
bt_Guard(r) ==
    /\ req[r].pc = "bt_guard"
    /\ \E f \in HandlerOutcomes :
        LET g == Guard(req[r], f, "bt_dispatch")
        IN  req' = [req EXCEPT ![r] = IF g.pc = "bt_dispatch" THEN Dispatch(g) ELSE g]
    /\ DbUnchanged

\* An 'add' that inserts whatever its select returned.
AlreadyBookmarked_Never(check) == FALSE

\* threads.py 164-171, bookmarks.py 136-143: is the thread bookmarked already?
AlreadyBookmarked(check) == check # << >>

bt_Check(r) ==
    /\ req[r].pc = "bt_check"
    /\ \E f \in HandlerOutcomes :
        LET q1 == Logged(req[r], "select", "bookmarked_threads", "thread_id", req[r].thread_id, f)
            check == SelectBookmarkedThread(q1.thread_id)
        IN  req' = [req EXCEPT ![r] =
                IF f # OK THEN HandlerExcept(q1, f)
                ELSE IF AlreadyBookmarked(check) THEN Respond(q1, 200, << >>)
                ELSE [q1 EXCEPT !.pc = "bt_insert"]]
    /\ DbUnchanged

\* threads.py 172-174, 181, bookmarks.py 144-147
bt_Insert(r) ==
    /\ req[r].pc = "bt_insert"
    /\ \E f \in HandlerOutcomes :
        LET q == req[r]
            out == InsertBookmarkedThreadOutcome(q.thread_id, f)
            q1 == Logged(q, "insert", "bookmarked_threads", "thread_id", q.thread_id, out)
        IN  IF out = OK
            THEN /\ bookmarked_threads' = Append(bookmarked_threads, q.thread_id)
                 /\ req' = [req EXCEPT ![r] = Respond(q1, 200, << >>)]
            ELSE /\ req' = [req EXCEPT ![r] = HandlerExcept(q1, out)]
                 /\ UNCHANGED bookmarked_threads
    /\ UNCHANGED <<users, threads, messages, bookmarks, nextId, now>>

\* threads.py 175-178, 181, bookmarks.py 170-173
bt_Delete(r) ==
    /\ req[r].pc = "bt_delete"
    /\ \E f \in HandlerOutcomes :
        LET q == req[r]
            q1 == Logged(q, "delete", "bookmarked_threads", "thread_id", q.thread_id, f)
        IN  IF f = OK
            THEN /\ bookmarked_threads' = CascadeBookmarkedThreads(q.thread_id)
                 /\ req' = [req EXCEPT ![r] = Respond(q1, 200, << >>)]
            ELSE /\ req' = [req EXCEPT ![r] = HandlerExcept(q1, f)]
                 /\ UNCHANGED bookmarked_threads
    /\ UNCHANGED <<users, threads, messages, bookmarks, nextId, now>>

toggle_bookmark_thread(r) == bt_Guard(r) \/ bt_Check(r) \/ bt_Insert(r) \/ bt_Delete(r)

\* ---------------------------------------------------------------- get_thread_messages
ReceiveGetThreadMessages(r) ==
    /\ req[r].pc = "idle"
    /\ \E u \in Users, t \in ThreadArgs :
          req' = [req EXCEPT ![r] = [Arrival("get_thread_messages", "gm_guard") EXCEPT
                                          !.user_id = u, !.thread_id = t]]
    /\ DbUnchanged

\* threads.py 92-100
gm_Guard(r) ==
    /\ req[r].pc = "gm_guard"
    /\ \E f \in HandlerOutcomes : req' = [req EXCEPT ![r] = Guard(@, f, "gm_list")]
    /\ DbUnchanged

\* threads.py 102-109
gm_List(r) ==
    /\ req[r].pc = "gm_list"
    /\ \E f \in HandlerOutcomes :
        LET q1 == Logged(req[r], "select", "messages", "thread_id", req[r].thread_id, f)
        IN  req' = [req EXCEPT ![r] =
                IF f # OK THEN HandlerExcept(q1, f)
                ELSE Respond(q1, 200, SelectMessagesOfThread(q1.thread_id))]
    /\ DbUnchanged

get_thread_messages(r) == gm_Guard(r) \/ gm_List(r)

\* ---------------------------------------------------------------- bookmarks
BookmarkIdArgs == {"b1", "b2"}

\* SELECT * FROM bookmarks WHERE thread_id = tid (as a set: the order is not modelled)
SelectBookmarksOfThread(tid) == {b \in bookmarks : b.thread_id = tid}

\* INSERT INTO bookmarks: id is the PRIMARY KEY, thread_id REFERENCES threads(id).
InsertBookmarkOutcome(id, tid, f) ==
    IF f # OK THEN f
    ELSE IF tid \notin DOMAIN threads THEN FkViolation
    ELSE IF \E b \in bookmarks : b.id = id THEN UniqueViolation
    ELSE OK

ReceiveGetBookmarks(r) ==
    /\ req[r].pc = "idle"
    /\ \E u \in Users, t \in ThreadArgs :
          req' = [req EXCEPT ![r] = [Arrival("get_bookmarks", "gb_guard") EXCEPT
                                          !.user_id = u, !.thread_id = t]]
    /\ DbUnchanged

\* bookmarks.py 19-26
gb_Guard(r) ==
    /\ req[r].pc = "gb_guard"
    /\ \E f \in HandlerOutcomes : req' = [req EXCEPT ![r] = Guard(@, f, "gb_list")]
    /\ DbUnchanged

\* bookmarks.py 28-35
gb_List(r) ==
    /\ req[r].pc = "gb_list"
    /\ \E f \in HandlerOutcomes :
        LET q1 == Logged(req[r], "select", "bookmarks", "thread_id", req[r].thread_id, f)
        IN  req' = [req EXCEPT ![r] =
                IF f # OK THEN HandlerExcept(q1, f)
                ELSE Respond(q1, 200, SelectBookmarksOfThread(q1.thread_id))]
    /\ DbUnchanged

get_bookmarks(r) == gb_Guard(r) \/ gb_List(r)

ReceiveCreateBookmark(r) ==
    /\ req[r].pc = "idle"
    /\ \E u \in Users, t \in ThreadArgs, b \in BookmarkIdArgs :
          req' = [req EXCEPT ![r] = [Arrival("create_bookmark", "cb_guard") EXCEPT
                                          !.user_id = u, !.thread_id = t, !.bookmark_id = b]]
    /\ DbUnchanged

\* bookmarks.py 62-70
cb_Guard(r) ==
    /\ req[r].pc = "cb_guard"
    /\ \E f \in HandlerOutcomes : req' = [req EXCEPT ![r] = Guard(@, f, "cb_insert")]
    /\ DbUnchanged

\* bookmarks.py 72-76
cb_Insert(r) ==
    /\ req[r].pc = "cb_insert"
    /\ \E f \in HandlerOutcomes :
        LET q == req[r]
            out == InsertBookmarkOutcome(q.bookmark_id, q.thread_id, f)
            q1 == Logged(q, "insert", "bookmarks", "id", q.bookmark_id, out)
            row == [id |-> q.bookmark_id, thread_id |-> q.thread_id]
        IN  IF out = OK
            THEN /\ bookmarks' = bookmarks \cup {row}
                 /\ req' = [req EXCEPT ![r] = Respond(q1, 200, {row})]
            ELSE /\ req' = [req EXCEPT ![r] = HandlerExcept(q1, out)]
                 /\ UNCHANGED bookmarks
    /\ UNCHANGED <<users, threads, messages, bookmarked_threads, nextId, now>>

create_bookmark(r) == cb_Guard(r) \/ cb_Insert(r)

\* ---------------------------------------------------------------- get_current_user_id
\* The X-User-Id header of a request: missing (None), empty, a user the table
\* knows, an identity it has not seen.
Tokens == {NoUser, "", "u1", "u3"}

\* deps.py 11: not x_user_id
Falsy(x_user_id) == x_user_id \in {NoUser, ""}

\* SELECT id FROM users WHERE id = x_user_id
SelectUser(id) == SelectSeq(users, LAMBDA u : u.id = id)

\* The users table without its primary key.
InsertUserOutcome_NoKey(id, f) == f

\* INSERT INTO users: id is the PRIMARY KEY (db.py 88-89).
InsertUserOutcome(id, f) ==
    IF f # OK THEN f
    ELSE IF SelectUser(id) # << >> THEN UniqueViolation
    ELSE OK

\* UPDATE users SET last_active_at = t WHERE id = id
UpdateUser(id, t) ==
    [i \in 1..Len(users) |-> IF users[i].id = id THEN [users[i] EXCEPT !.last_active_at = t]
                                                   ELSE users[i]]

\* A request to an endpoint that depends on get_current_user_id arrives (here
\* GET /threads/{thread_id}/messages); the handler starts once the resolver has
\* returned.
ReceiveWithToken(r) ==
    /\ req[r].pc = "idle"
    /\ \E x \in Tokens, t \in ThreadArgs :
          req' = [req EXCEPT ![r] = [Arrival("get_thread_messages", "auth_lookup") EXCEPT
                                          !.x_user_id = x, !.thread_id = t]]
    /\ DbUnchanged

\* deps.py 40: return x_user_id; FastAPI then calls the handler with it.
Returned(q) == [q EXCEPT !.user_id = q.x_user_id, !.pc = "gm_guard"]

\* A resolver that lets the caller through when its database work fails.
AuthExcept_Authenticates(q, msg) == Returned(q)

\* deps.py 42-44: every exception of the try block becomes a 500.
AuthExcept(q, msg) == Respond(q, 500, << >>)

\* A lookup whose result is never taken for an existing user.
UserExists_Never(user_res) == FALSE

\* deps.py 26: if not user_res.data
UserExists(user_res) == user_res # << >>

\* deps.py 11-26: the header check, then the lookup
auth_Lookup(r) ==
    /\ req[r].pc = "auth_lookup"
    /\ \E f \in HandlerOutcomes :
        LET q == req[r]
            user_res == SelectUser(q.x_user_id)
            q1 == Logged(q, "select", "users", "id", q.x_user_id, f)
        IN  req' = [req EXCEPT ![r] =
                IF Falsy(q.x_user_id) THEN Respond(q, 400, << >>)
                ELSE IF f # OK THEN AuthExcept(q1, f)
                ELSE [q1 EXCEPT !.user_res = user_res,
                         !.pc = IF UserExists(user_res) THEN "auth_update" ELSE "auth_insert"]]
    /\ DbUnchanged

\* deps.py 27-34, 40: create the guest user
auth_Insert(r) ==
    /\ req[r].pc = "auth_insert"
    /\ \E f \in HandlerOutcomes :
        LET q == req[r]
            out == InsertUserOutcome(q.x_user_id, f)
            q1 == Logged(q, "insert", "users", "id", q.x_user_id, out)
        IN  IF out = OK
            THEN /\ users' = Append(users, UserRow(q.x_user_id, "guest", now))
                 /\ req' = [req EXCEPT ![r] = Returned(q1)]
            ELSE /\ req' = [req EXCEPT ![r] = AuthExcept(q1, out)]
                 /\ UNCHANGED users
    /\ now' = now + 1
    /\ UNCHANGED <<threads, messages, bookmarked_threads, bookmarks, nextId>>

\* deps.py 35-40: update last_active_at
auth_Update(r) ==
    /\ req[r].pc = "auth_update"
    /\ \E f \in HandlerOutcomes :
        LET q == req[r]
            q1 == Logged(q, "update", "users", "id", q.x_user_id, f)
        IN  IF f = OK
            THEN /\ users' = UpdateUser(q.x_user_id, now)
                 /\ req' = [req EXCEPT ![r] = Returned(q1)]
            ELSE /\ req' = [req EXCEPT ![r] = AuthExcept(q1, f)]
                 /\ UNCHANGED users
    /\ now' = now + 1
    /\ UNCHANGED <<threads, messages, bookmarked_threads, bookmarks, nextId>>

get_current_user_id(r) == auth_Lookup(r) \/ auth_Insert(r) \/ auth_Update(r)

\* ---------------------------------------------------------------- DBWrapper.Table
\* A DBWrapper.Table object driven through builder calls in any order.  Its
\* attributes are a function from the attribute names that have been set
\* (hasattr) to their values; `executed` has one entry per execute() call, and
\* `raised` is the exception the last execute() call raised.
AllowedTables == {"threads", "messages", "bookmarked_threads", "bookmarks", "users"}
TableNames == {"messages", "messages; DROP TABLE users"}

\* _IDENTIFIER_RE.match(column) for the column names the callers below pass.
IdentifierRe(column) == column \in {"id", "thread_id", "role", "content", "created_at"}

InvalidTable == <<"Invalid table name">>
InvalidColumn == <<"Invalid column name">>
AttributeError == <<"'Table' object has no attribute '_eq_col'">>
NoException == << >>

HasAttr(q, a) == a \in DOMAIN q.attrs
SetAttrs(q, new) == [q EXCEPT !.attrs = new @@ q.attrs]

\* A builder call that raises e leaves the object as it was.
Raise(q, e) == q

\* The arguments the builder calls are made with.
EqArgs == {<<"id", 1>>, <<"role", "assistant">>, <<"id = id OR id", 1>>}
InArgs == {<<"id", <<1>>>>, <<"id", << >>>>}
InsertArgs == {("thread_id" :> "t1") @@ ("role" :> "user") @@ ("content" :> <<"h">>)}
UpdateArgs == {"content" :> <<"w">>, "content = '' --" :> <<"w">>}

\* One execute() call: the statement of the branch it took, where << >> stands
\* for no WHERE clause, <<"eq", column, value>> and <<"in", column, values>> for
\* a filter, and how it ended: OK, the error the database answered, or the
\* exception raised before cursor.execute was reached.
Sql(op, name, where, out) == [op |-> op, table |-> name, where |-> where, out |-> out]
ReachedDatabase(st) == st.out \in {OK, UniqueViolation, FkViolation}
Executed(q, op, where, out) ==
    [q EXCEPT !.executed = Append(@, Sql(op, q.table_name, where, out)),
              !.raised = IF out = OK THEN NoException ELSE out]

\* db.py 187-190: DBWrapper.table(name) -> Table(name)
Table_init(r) ==
    /\ req[r].pc = "idle"
    /\ \E name \in TableNames :
          req' = [req EXCEPT ![r] =
                    IF name \notin AllowedTables THEN Raise(req[r], InvalidTable)
                    ELSE [Arrival("table", "table") EXCEPT !.table_name = name]]
    /\ DbUnchanged

\* db.py 192-194
Table_select(r) ==
    /\ req[r].pc = "table"
    /\ req' = [req EXCEPT ![r] = SetAttrs(@, "_select" :> "*")]
    /\ DbUnchanged

\* db.py 196-201
Table_eq(r) ==
    /\ req[r].pc = "table"
    /\ \E arg \in EqArgs :
          req' = [req EXCEPT ![r] =
                    IF ~IdentifierRe(arg[1]) THEN Raise(req[r], InvalidColumn)
                    ELSE SetAttrs(req[r], ("_eq_col" :> arg[1]) @@ ("_eq_val" :> arg[2]))]
    /\ DbUnchanged

\* db.py 203-208
Table_order(r) ==
    /\ req[r].pc = "table"
    /\ req' = [req EXCEPT ![r] = SetAttrs(@, ("_order_col" :> "created_at") @@ ("_order_desc" :> TRUE))]
    /\ DbUnchanged

\* db.py 210-212
Table_limit(r) ==
    /\ req[r].pc = "table"
    /\ req' = [req EXCEPT ![r] = SetAttrs(@, "_limit" :> 1)]
    /\ DbUnchanged

\* db.py 214-219
Table_in(r) ==
    /\ req[r].pc = "table"
    /\ \E arg \in InArgs :
          req' = [req EXCEPT ![r] =
                    IF ~IdentifierRe(arg[1]) THEN Raise(req[r], InvalidColumn)
                    ELSE SetAttrs(req[r], ("_in_col" :> arg[1]) @@ ("_in_vals" :> arg[2]))]
    /\ DbUnchanged

\* db.py 303-305
Table_insert(r) ==
    /\ req[r].pc = "table"
    /\ \E data \in InsertArgs : req' = [req EXCEPT ![r] = SetAttrs(@, "_insert_data" :> data)]
    /\ DbUnchanged

\* db.py 307-309
Table_update(r) ==
    /\ req[r].pc = "table"
    /\ \E data \in UpdateArgs : req' = [req EXCEPT ![r] = SetAttrs(@, "_update_data" :> data)]
    /\ DbUnchanged

\* db.py 311-313
Table_delete(r) ==
    /\ req[r].pc = "table"
    /\ req' = [req EXCEPT ![r] = SetAttrs(@, "_delete" :> TRUE)]
    /\ DbUnchanged

\* SET k = %s for every key of the update data.
RECURSIVE SetColumns(_, _, _)
SetColumns(row, data, cols) ==
    IF cols = {} THEN row
    ELSE LET k == CHOOSE c \in cols : TRUE
         IN  SetColumns([row EXCEPT ![k] = data[k]], data, cols \ {k})

\* A write that, like the SELECT branch, leaves the WHERE clause out when eq()
\* was never called.
WriteFilter_Optional(q) ==
    IF HasAttr(q, "_eq_col") THEN <<"eq", q.attrs["_eq_col"], q.attrs["_eq_val"]>> ELSE << >>

\* db.py 256, 266: the WHERE clause of an UPDATE or DELETE is built from
\* self._eq_col and self._eq_val; reading a missing attribute raises
\* AttributeError while the query text is being built.
WriteFilter(q) ==
    IF HasAttr(q, "_eq_col") THEN <<"eq", q.attrs["_eq_col"], q.attrs["_eq_val"]>> ELSE AttributeError

\* The rows a WHERE clause selects.
Selected(row, where) ==
    IF where = << >> THEN TRUE
    ELSE IF where[1] = "eq" THEN row[where[2]] = where[3]
    ELSE \E i \in 1..Len(where[3]) : row[where[2]] = where[3][i]

Reverse(s) == [i \in 1..Len(s) |-> s[Len(s) + 1 - i]]

\* db.py 227-247: INSERT.  A missing id is put into the caller's dict itself, so
\* the object keeps it; the column names are checked after that.
ExecuteInsert(r, q) ==
    LET given == q.attrs["_insert_data"]
        data == IF "id" \notin DOMAIN given /\ q.table_name # "bookmarked_threads"
                THEN ("id" :> nextId) @@ given ELSE given
        q1 == [q EXCEPT !.attrs = ("_insert_data" :> data) @@ q.attrs]
        out == IF \E i \in 1..Len(messages) : messages[i].id = data["id"] THEN UniqueViolation
               ELSE InsertMessageOutcome(data["thread_id"], OK)
    IN  /\ nextId' = IF "id" \notin DOMAIN given THEN nextId + 1 ELSE nextId
        /\ IF \E col \in DOMAIN data : ~IdentifierRe(col)
           THEN /\ req' = [req EXCEPT ![r] = Executed(q1, "insert", << >>, InvalidColumn)]
                /\ UNCHANGED messages
           ELSE IF out # OK
           THEN /\ req' = [req EXCEPT ![r] = Executed(q1, "insert", << >>, out)]
                /\ UNCHANGED messages
           ELSE /\ messages' = Append(messages,
                        MessageRow(data["id"], data["thread_id"], data["role"], data["content"], NULL))
                /\ req' = [req EXCEPT ![r] = [Executed(q1, "insert", << >>, OK) EXCEPT
                                !.body = <<Last(messages')>>]]

\* db.py 249-262: UPDATE
ExecuteUpdate(r, q) ==
    LET data == q.attrs["_update_data"]
        where == WriteFilter(q)
    IN  /\ UNCHANGED nextId
        /\ IF \E col \in DOMAIN data : ~IdentifierRe(col)
           THEN /\ req' = [req EXCEPT ![r] = Executed(q, "update", << >>, InvalidColumn)]
                /\ UNCHANGED messages
           ELSE IF where = AttributeError
           THEN /\ req' = [req EXCEPT ![r] = Executed(q, "update", << >>, AttributeError)]
                /\ UNCHANGED messages
           ELSE /\ messages' = [i \in 1..Len(messages) |->
                                    IF Selected(messages[i], where)
                                    THEN SetColumns(messages[i], data, DOMAIN data)
                                    ELSE messages[i]]
                /\ req' = [req EXCEPT ![r] = [Executed(q, "update", where, OK) EXCEPT !.body = << >>]]

\* db.py 264-269: DELETE
ExecuteDelete(r, q) ==
    LET where == WriteFilter(q)
    IN  /\ UNCHANGED nextId
        /\ IF where = AttributeError
           THEN /\ req' = [req EXCEPT ![r] = Executed(q, "delete", << >>, AttributeError)]
                /\ UNCHANGED messages
           ELSE /\ messages' = SelectSeq(messages, LAMBDA m : ~Selected(m, where))
                /\ req' = [req EXCEPT ![r] = [Executed(q, "delete", where, OK) EXCEPT !.body = << >>]]

\* db.py 271-292: SELECT, filtered by eq() or else by a non-empty in_(),
\* ordered and cut as asked.
ExecuteSelect(r, q) ==
    LET where == IF HasAttr(q, "_eq_col") THEN <<"eq", q.attrs["_eq_col"], q.attrs["_eq_val"]>>
                 ELSE IF HasAttr(q, "_in_col") /\ q.attrs["_in_vals"] # << >>
                 THEN <<"in", q.attrs["_in_col"], q.attrs["_in_vals"]>>
                 ELSE << >>
        rows == SelectSeq(messages, LAMBDA m : Selected(m, where))
        ordered == IF HasAttr(q, "_order_col") /\ q.attrs["_order_desc"] THEN Reverse(rows) ELSE rows
        data == IF HasAttr(q, "_limit") /\ q.attrs["_limit"] < Len(ordered)
                THEN SubSeq(ordered, 1, q.attrs["_limit"]) ELSE ordered
    IN  /\ UNCHANGED <<messages, nextId>>
        /\ req' = [req EXCEPT ![r] = [Executed(q, "select", where, OK) EXCEPT !.body = data]]

\* db.py 221-301: execute().  The connection is opened first; the branch is
\* chosen by the attributes the object has; every exception is re-raised.
Table_execute(r) ==
    /\ req[r].pc = "table"
    /\ Len(req[r].executed) < MaxExecutes
    /\ \E f \in HandlerOutcomes :
        LET q == req[r]
        IN  IF f # OK
            THEN /\ req' = [req EXCEPT ![r] = Executed(q, "connect", << >>, f)]
                 /\ UNCHANGED <<messages, nextId>>
            ELSE IF HasAttr(q, "_insert_data") THEN ExecuteInsert(r, q)
            ELSE IF HasAttr(q, "_update_data") THEN ExecuteUpdate(r, q)
            ELSE IF HasAttr(q, "_delete") THEN ExecuteDelete(r, q)
            ELSE ExecuteSelect(r, q)
    /\ UNCHANGED <<users, threads, bookmarked_threads, bookmarks, now>>

\* ---------------------------------------------------------------- gateway specification
\* One Table object on slot 1, given any sequence of builder calls, over a
\* messages table with two rows.
InitTable ==
    /\ users = <<UserRow("u1", "guest", 0), UserRow("u2", "guest", 0)>>
    /\ now = 1
    /\ threads = [t \in {"t1", "t0"} |-> IF t = "t1" THEN "u1" ELSE NoUser]
    /\ messages = <<MessageRow(1, "t1", "user", <<"h">>, "ko"),
                    [MessageRow(2, "t1", "assistant", <<"x">>, NULL) EXCEPT !.translated_content = <<"z">>]>>
    /\ nextId = 3
    /\ bookmarks = {}
    /\ bookmarked_threads = << >>
    /\ req = [r \in Reqs |-> NoReq]

NextTable ==
    \/ Table_init(1)
    \/ Table_select(1)
    \/ Table_eq(1)
    \/ Table_order(1)
    \/ Table_limit(1)
    \/ Table_in(1)
    \/ Table_insert(1)
    \/ Table_update(1)
    \/ Table_delete(1)
    \/ Table_execute(1)

SpecTable == InitTable /\ [][NextTable]_vars

\* ---------------------------------------------------------------- chat specification
\* One chat turn on slot 1, next to one delete_thread or translate request on slot 2.
InitDb ==
    /\ users = <<UserRow("u1", "guest", 0), UserRow("u2", "guest", 0)>>
    /\ now = 1
    /\ threads = [t \in {"t1", "t0"} |-> IF t = "t1" THEN "u1" ELSE NoUser]
    /\ messages = <<MessageRow(1, "t1", "user", <<"h">>, "ko")>>
    /\ bookmarks = {}
    /\ nextId = 2

Init ==
    /\ InitDb
    /\ bookmarked_threads = << >>
    /\ req = [r \in Reqs |-> NoReq]

Next ==
    \/ ReceiveChat(1)
    \/ chat_endpoint(1)
    \/ stream_generator(1)
    \/ ReceiveDeleteThread(2, {"u1"}, {"t1"})
    \/ delete_thread(2)
    \/ ReceiveTranslate(2, {"u1"}, {2, 3})
    \/ translate_endpoint(2)

Spec == Init /\ [][Next]_vars

\* ---------------------------------------------------------------- handler specification
\* Two requests to the thread, message and bookmark handlers, interleaved at
\* the granularity of their database statements.
InitCrud ==
    /\ InitDb
    /\ bookmarked_threads \in {<< >>, <<"t1">>}
    /\ req = [r \in Reqs |-> NoReq]

NextCrud ==
    \E r \in Reqs :
        \/ ReceiveBookmarkThread(r)
        \/ toggle_bookmark_thread(r)
        \/ ReceiveDeleteThread(r, Users, ThreadArgs)
        \/ delete_thread(r)
        \/ ReceiveTranslate(r, Users, MessageIdArgs)
        \/ translate_endpoint(r)
        \/ ReceiveGetThreadMessages(r)
        \/ get_thread_messages(r)
        \/ ReceiveGetBookmarks(r)
        \/ get_bookmarks(r)
        \/ ReceiveCreateBookmark(r)
        \/ create_bookmark(r)

SpecCrud == InitCrud /\ [][NextCrud]_vars

\* ---------------------------------------------------------------- history specification
\* A thread that already holds n messages, user and assistant in turn, whose
\* translated_content is NULL, empty or a text depending on the position; the
\* newest row of the table belongs to another thread.
PastMessage(i, v) ==
    [MessageRow(i, "t1", IF i % 2 = 1 THEN "user" ELSE "assistant", <<"m", ToString(i)>>, "ko")
        EXCEPT !.translated_content =
            IF (i + v) % 3 = 0 THEN NULL
            ELSE IF (i + v) % 3 = 1 THEN EmptyText
            ELSE <<"z", ToString(i)>>]

InitHistory ==
    /\ users = <<UserRow("u1", "guest", 0), UserRow("u2", "guest", 0)>>
    /\ now = 1
    /\ threads = [t \in {"t1", "t0"} |-> IF t = "t1" THEN "u1" ELSE NoUser]
    /\ \E n \in 0..MaxHistory, v \in 0..2 :
          /\ messages = [i \in 1..n |-> PastMessage(i, v)]
                            \o <<MessageRow(n + 1, "t0", "user", <<"h">>, "en")>>
          /\ nextId = n + 2
    /\ bookmarks = {}
    /\ bookmarked_threads = << >>
    /\ req = [r \in Reqs |-> NoReq]

\* One chat turn on a thread with a past.
NextHistory ==
    \/ ReceiveChat(1)
    \/ chat_endpoint(1)
    \/ stream_generator(1)

SpecHistory == InitHistory /\ [][NextHistory]_vars

\* ---------------------------------------------------------------- cascade specification
\* A chat turn, a bookmark creation or a bookmark-toggle on slot 1, next to a
\* delete_thread of the same thread on slot 2.
NextCascade ==
    \/ ReceiveChat(1)
    \/ chat_endpoint(1)
    \/ stream_generator(1)
    \/ ReceiveBookmarkThread(1)
    \/ toggle_bookmark_thread(1)
    \/ ReceiveCreateBookmark(1)
    \/ create_bookmark(1)
    \/ ReceiveDeleteThread(2, {"u1"}, {"t1"})
    \/ delete_thread(2)

SpecCascade == Init /\ [][NextCascade]_vars

\* ---------------------------------------------------------------- concurrent turns specification
\* Two chat turns of the owner of two threads, interleaved at the granularity
\* of their database statements, yields and fragments: a turn with both
\* translations on slot 1, on either thread, and a plain turn on slot 2, on the
\* first thread.  Either turn may be cancelled at any suspension point; the
\* behaviours are those in which no database statement and no LLM stream
\* raises (every statement a step hands to execute() succeeds), so that no
\* turn reaches the except clause of chat.py 183-195.
InitTurns ==
    /\ users = <<UserRow("u1", "guest", 0), UserRow("u2", "guest", 0)>>
    /\ now = 1
    /\ threads = [t \in {"t1", "t2"} |-> "u1"]
    /\ messages = << >>
    /\ nextId = 1
    /\ bookmarks = {}
    /\ bookmarked_threads = << >>
    /\ req = [r \in Reqs |-> NoReq]

NoFailure == \A r \in Reqs : \A i \in 1..Len(req[r].log) : req[r].log[i].out = OK

NextTurns ==
    \/ ReceiveChatFrom(1, {"u1"}, {"t1", "t2"}, {<<TRUE, TRUE>>})
    \/ ReceiveChatFrom(2, {"u1"}, {"t1"}, {<<FALSE, FALSE>>})
    \/ \E r \in Reqs : chat_endpoint(r) /\ NoFailure'
    \/ \E r \in Reqs : sg_VerifyOwnership(r) /\ NoFailure'
    \/ \E r \in Reqs : sg_CreateUserMessage(r) /\ NoFailure'
    \/ \E r \in Reqs : sg_AfterUserMessage(r) /\ NoFailure'
    \/ \E r \in Reqs : sg_StartUserTranslation(r)
    \/ \E r \in Reqs : sg_UserTranslationFragment(r)
    \/ \E r \in Reqs : sg_UserTranslationDone(r) /\ NoFailure'
    \/ \E r \in Reqs : sg_AfterUserMessageFinal(r) /\ NoFailure'
    \/ \E r \in Reqs : sg_AfterAssistantMessageId(r)
    \/ \E r \in Reqs : sg_StartGeneration(r) /\ NoFailure'
    \/ \E r \in Reqs : sg_GenerationFragment(r)
    \/ \E r \in Reqs : sg_GenerationDone(r) /\ NoFailure'
    \/ \E r \in Reqs : sg_StartResponseTranslation(r)
    \/ \E r \in Reqs : sg_ResponseTranslationFragment(r)
    \/ \E r \in Reqs : sg_ResponseTranslationDone(r) /\ NoFailure'
    \/ \E r \in Reqs : sg_Cancel(r)

SpecTurns == InitTurns /\ [][NextTurns]_vars

\* ---------------------------------------------------------------- resolver specification
\* Two requests that pass through get_current_user_id before their handler,
\* interleaved at the granularity of their database statements.
NextAuth ==
    \E r \in Reqs :
        \/ ReceiveWithToken(r)
        \/ get_current_user_id(r)
        \/ get_thread_messages(r)

SpecAuth == Init /\ [][NextAuth]_vars

\* ================================================================ properties
IsWrite(e) == e.op \in {"insert", "update", "delete"}
Writes(q) == SelectSeq(q.log, IsWrite)
Max(S) == CHOOSE x \in S : \A y \in S : y <= x

\* The phase a frame belongs to: the name of the last PHASE frame before it.
PhaseAt(fs, i) ==
    LET ps == {j \in 1..(i - 1) : fs[j].k = "PHASE"}
    IN  IF ps = {} THEN "NONE" ELSE fs[Max(ps)].v

IsFragmentOf(fs, i, ph) == fs[i].k = "fragment" /\ PhaseAt(fs, i) = ph

\* The fragment frames of one phase, concatenated in emission order.
PhaseText(fs, ph) ==
    LET idx == SelectSeq([i \in 1..Len(fs) |-> i], LAMBDA i : IsFragmentOf(fs, i, ph))
    IN  Concat([n \in 1..Len(idx) |-> fs[idx[n]].v])

GenCalls(q) == SelectSeq(q.llm, LAMBDA c : c.fn = "generate_chat_stream")
RowOf(id) == SelectMessageById(id)

\* Some /translate request has written the message's translated_content.
Retranslated(id) ==
    \E s \in Reqs : /\ req[s].kind = "translate_endpoint"
                    /\ req[s].message_id = id
                    /\ \E i \in 1..Len(req[s].log) : req[s].log[i].op = "update" /\ req[s].log[i].out = OK

\* C1: a chat request whose ownership lookup returned a thread of another owner
\* issues no insert, update or delete, creates no message row, and ends either
\* with HTTP 403 before any frame or with an error frame as its only frame.
C1_OwnershipBeforeWrite ==
    \A r \in Reqs :
        LET q == req[r]
        IN  (q.kind = "chat" /\ q.found = "other") =>
                /\ Writes(q) = << >>
                /\ q.user_msg_id = 0 /\ q.asst_msg_id = 0
                /\ \/ q.pc = "responded" /\ q.status = 403 /\ q.frames = << >>
                   \/ q.pc = "closed" /\ Len(q.frames) = 1 /\ q.frames[1].k = "error"

C1_Witness ==
    \E r \in Reqs : /\ req[r].kind = "chat" /\ req[r].found = "other"
                    /\ req[r].thread_id = "t1" /\ req[r].user_id = "u2"
                    /\ req[r].status = 403

\* C2: in the frames of a turn, every fragment of the translating phase comes
\* after the first USER_MESSAGE frame and before the ASSISTANT_MESSAGE_ID frame,
\* every fragment of the responding phase comes after the ASSISTANT_MESSAGE_ID
\* frame (hence after the user-message confirmation) and before DONE.
C2_FrameOrder ==
    \A r \in Reqs :
        LET fs == req[r].frames
            N == 1..Len(fs)
        IN  \A j \in N :
              /\ IsFragmentOf(fs, j, "TRANSLATING") =>
                    /\ fs[1].k = "USER_MESSAGE"
                    /\ \A i \in N : fs[i].k = "ASSISTANT_MESSAGE_ID" => j < i
              /\ IsFragmentOf(fs, j, "RESPONDING") =>
                    /\ fs[1].k = "USER_MESSAGE"
                    /\ \E i \in N : fs[i].k = "ASSISTANT_MESSAGE_ID" /\ i < j
                    /\ \A i \in N : fs[i].k = "ASSISTANT_MESSAGE_ID" => i < j
                    /\ \A i \in N : fs[i].k = "DONE" => j < i
              /\ fs[j].k = "fragment" => \E i \in N : fs[i].k = "USER_MESSAGE" /\ i < j
              /\ fs[j].k = "DONE" => j = Len(fs)

C2_Witness ==
    \E r \in Reqs :
        LET fs == req[r].frames
        IN  /\ fs # << >> /\ Last(fs).k = "DONE"
            /\ \E j \in 1..Len(fs) : IsFragmentOf(fs, j, "TRANSLATING")
            /\ \E j \in 1..Len(fs) : IsFragmentOf(fs, j, "RESPONDING")

\* C3: with translate_to_english, the last entry of the history handed to
\* generate_chat_stream holds the concatenation of the translating-phase
\* fragments, and so does translated_content of the turn's user row (as long as
\* the row exists and no /translate request has rewritten it).
C3_TranslatedInput ==
    \A r \in Reqs :
        LET q == req[r]
            text == PhaseText(q.frames, "TRANSLATING")
        IN  (q.kind = "chat" /\ q.translate_to_english /\ GenCalls(q) # << >>) =>
                /\ Last(GenCalls(q)[1].arg) = [role |-> "user", content |-> text]
                /\ (RowOf(q.user_msg_id) # << >> /\ ~Retranslated(q.user_msg_id)) =>
                        RowOf(q.user_msg_id)[1].translated_content = text

C3_Witness ==
    \E r \in Reqs :
        /\ req[r].kind = "chat" /\ req[r].translate_to_english /\ GenCalls(req[r]) # << >>
        /\ PhaseText(req[r].frames, "TRANSLATING") = <<"x", "y">>
        /\ RowOf(req[r].user_msg_id) # << >>
        /\ RowOf(req[r].user_msg_id)[1].translated_content = <<"x", "y">>

\* C4: without translate_to_english, the last entry of the history handed to
\* generate_chat_stream holds the raw inbound content, and the turn makes no
\* translation call for the user message.
C4_RawInput ==
    \A r \in Reqs :
        LET q == req[r]
        IN  (q.kind = "chat" /\ ~q.translate_to_english) =>
                /\ GenCalls(q) # << >> =>
                        Last(GenCalls(q)[1].arg) = [role |-> "user", content |-> q.user_content]
                /\ \A i \in 1..Len(q.llm) :
                        ~(q.llm[i].fn = "translate_text_stream" /\ q.llm[i].target = "English")

C4_Witness ==
    \E r \in Reqs : /\ req[r].kind = "chat" /\ ~req[r].translate_to_english
                    /\ GenCalls(req[r]) # << >>
                    /\ req[r].pc = "closed" /\ req[r].frames # << >> /\ Last(req[r].frames).k = "DONE"

\* The turn's UPDATE of the placeholder's content has been executed.
ContentPersisted(q) ==
    \E i \in 1..Len(q.log) :
        /\ q.log[i].op = "update" /\ q.log[i].table = "messages" /\ q.log[i].out = OK
        /\ q.log[i].val = q.asst_msg_id

\* C5 as stated: once the stream of a turn has closed, the responding-phase
\* fragments, concatenated, equal the content of the turn's assistant row.
C5_AsStated ==
    \A r \in Reqs :
        LET q == req[r]
        IN  (q.kind = "chat" /\ q.pc = "closed" /\ RowOf(q.asst_msg_id) # << >>) =>
                PhaseText(q.frames, "RESPONDING") = RowOf(q.asst_msg_id)[1].content

\* C5 amended: the equality holds for every closed turn whose UPDATE of the
\* placeholder's content has been executed (every turn that ends with DONE is
\* one), as long as the row still exists.
C5_LosslessReply ==
    \A r \in Reqs :
        LET q == req[r]
        IN  (q.kind = "chat" /\ q.pc = "closed" /\ ContentPersisted(q)
                /\ RowOf(q.asst_msg_id) # << >>) =>
                PhaseText(q.frames, "RESPONDING") = RowOf(q.asst_msg_id)[1].content

C5_Witness ==
    \E r \in Reqs :
        /\ req[r].kind = "chat" /\ req[r].pc = "closed"
        /\ req[r].frames # << >> /\ Last(req[r].frames).k = "DONE"
        /\ PhaseText(req[r].frames, "RESPONDING") = <<"x", "y">>
        /\ RowOf(req[r].asst_msg_id) # << >>
        /\ RowOf(req[r].asst_msg_id)[1].content = <<"x", "y">>

IsTerminal(f) == f.k \in {"DONE", "error"}

\* C6 as stated: a turn that has started streaming and is not cancelled closes
\* with exactly one terminal frame (DONE or error), and that frame is the last.
C6_TerminalFrame ==
    \A r \in Reqs :
        LET q == req[r]
        IN  (q.kind = "chat" /\ q.pc = "closed" /\ ~q.cancelled) =>
                /\ q.frames # << >>
                /\ IsTerminal(Last(q.frames))
                /\ \A i \in 1..(Len(q.frames) - 1) : ~IsTerminal(q.frames[i])

\* C7: a cancelled turn takes no further step (it emits no frame and issues no
\* statement), and the cancellation itself changes no table, frame or statement.
C7_Step ==
    \A r \in Reqs :
        /\ req[r].cancelled => req'[r] = req[r]
        /\ (~req[r].cancelled /\ req'[r].cancelled) =>
                /\ messages' = messages /\ threads' = threads
                /\ req'[r].frames = req[r].frames
                /\ req'[r].log = req[r].log

C7_CancelStops == [][C7_Step]_vars

C7_Witness ==
    \E r \in Reqs :
        /\ req[r].kind = "chat" /\ req[r].cancelled
        /\ RowOf(req[r].user_msg_id) # << >>
        /\ RowOf(req[r].asst_msg_id) # << >>
        /\ RowOf(req[r].asst_msg_id)[1].content = EmptyText
        /\ PhaseText(req[r].frames, "RESPONDING") # EmptyText

\* ---------------------------------------------------------------- handler properties
ThreadScoped ==
    {"chat", "get_thread_messages", "get_bookmarks", "create_bookmark", "toggle_bookmark_thread",
     "add_bookmarked_thread", "remove_bookmarked_thread", "delete_thread", "translate_endpoint"}

\* C8: a thread-scoped request whose thread (or message) does not exist is
\* answered with HTTP 404, one whose thread belongs to somebody else with
\* HTTP 403; in both cases the response carries no row and the request has
\* written nothing.
C8_GuardStatus ==
    \A r \in Reqs :
        LET q == req[r]
        IN  (q.kind \in ThreadScoped /\ q.pc = "responded" /\ q.found \in {"none", "other"}) =>
                /\ q.status = (IF q.found = "none" THEN 404 ELSE 403)
                /\ Writes(q) = << >>
                /\ q.body = << >>

\* The requests that add a bookmarked_threads row for their thread.
IsAdd(q) ==
    /\ q.kind \in {"toggle_bookmark_thread", "add_bookmarked_thread"}
    /\ q.action = "add"

\* Every statement of the request ran against a database that was up.
DbUp(q) == \A i \in 1..Len(q.log) : q.log[i].out \in {OK, UniqueViolation, FkViolation}

RowsFor(tid) == Len(SelectBookmarkedThread(tid))

\* Request a had been answered before request b arrived, both are 'add' for
\* the same thread of their caller, and both have been answered.
AddThenAdd(a, b) ==
    /\ a # b
    /\ IsAdd(req[a]) /\ IsAdd(req[b])
    /\ req[a].thread_id = req[b].thread_id
    /\ req[a].found = "own" /\ req[b].found = "own"
    /\ Finished(req[a]) /\ Finished(req[b])
    /\ a \in req[b].after
    /\ DbUp(req[a]) /\ DbUp(req[b])

C9_AddTwice ==
    \A a, b \in Reqs :
        AddThenAdd(a, b) =>
            /\ RowsFor(req[a].thread_id) = 1
            /\ req[a].status = 200
            /\ req[b].status = 200

\* A 'remove' whose delete statement runs while the thread has no row.
C9_RemoveStep ==
    \A r \in Reqs :
        (/\ req[r].pc = "bt_delete"
         /\ req'[r].pc = "responded"
         /\ ~IsBookmarked(req[r].thread_id)
         /\ DbUp(req'[r])) =>
            /\ bookmarked_threads' = bookmarked_threads
            /\ req'[r].status = 200

\* C9: bookmark-toggle is idempotent for calls that run one after another:
\* 'add' followed by 'add' for a thread of the caller leaves exactly one
\* bookmarked_threads row for it and both calls answer 200; 'remove' for a
\* thread without a row answers 200 and leaves the table as it was.
C9_Idempotent == [](C9_AddTwice) /\ [][C9_RemoveStep]_vars

\* The first 'add' inserted the row, the second found it and inserted nothing.
C9_Witness ==
    \E a, b \in Reqs :
        /\ AddThenAdd(a, b)
        /\ \E i \in 1..Len(req[a].log) : req[a].log[i].op = "insert" /\ req[a].log[i].out = OK
        /\ \A i \in 1..Len(req[b].log) : req[b].log[i].op # "insert"
        /\ req[b].status = 200

\* Two 'add' requests for the same thread of their caller, both answered,
\* neither of which had been answered when the other arrived.
ConcurrentAdds(a, b) ==
    /\ a # b
    /\ IsAdd(req[a]) /\ IsAdd(req[b])
    /\ req[a].thread_id = req[b].thread_id
    /\ req[a].found = "own" /\ req[b].found = "own"
    /\ req[a].pc \notin {"idle", "bt_guard"} /\ req[b].pc \notin {"idle", "bt_guard"}
    /\ a \notin req[b].after /\ b \notin req[a].after
    /\ DbUp(req[a]) /\ DbUp(req[b])

\* C10: two 'add' requests for the same thread that interleave their select
\* and insert statements never leave more than one bookmarked_threads row for
\* the thread; once both are over there is exactly one row and each has been
\* answered with an HTTP response (200, or the 500 the handler makes of the
\* primary-key violation), at least one of them with 200.
C10_RacingAdds ==
    \A a, b \in Reqs :
        ConcurrentAdds(a, b) =>
            /\ RowsFor(req[a].thread_id) <= 1
            /\ (Finished(req[a]) /\ Finished(req[b])) =>
                  /\ RowsFor(req[a].thread_id) = 1
                  /\ req[a].pc = "responded" /\ req[a].status \in {200, 500}
                  /\ req[b].pc = "responded" /\ req[b].status \in {200, 500}
                  /\ 200 \in {req[a].status, req[b].status}

\* Both requests saw no row, both inserted: the second insert hit the primary key.
C10_Witness ==
    \E a, b \in Reqs :
        /\ ConcurrentAdds(a, b)
        /\ Finished(req[a]) /\ Finished(req[b])
        /\ req[a].status = 200
        /\ req[b].status = 500
        /\ \E i \in 1..Len(req[b].log) :
              req[b].log[i].op = "insert" /\ req[b].log[i].out = UniqueViolation

\* ---------------------------------------------------------------- resolver properties
\* The statements a request has issued on the users table.
UserStmts(q) == SelectSeq(q.log, LAMBDA e : e.table = "users")
UserWrites(q) == SelectSeq(UserStmts(q), IsWrite)
UserRows(id) == Len(SelectUser(id))

\* The resolver of the request is over: it raised or it returned.
Resolved(q) == q.pc \notin {"idle", "auth_lookup", "auth_insert", "auth_update"}

\* Every users statement of the request ran against a database that was up.
UsersUp(q) == \A i \in 1..Len(q.log) : q.log[i].table = "users" => q.log[i].out \in {OK, UniqueViolation}

\* Two requests carry the same identity, which the table did not hold when
\* either of them looked it up.
SameUnseenToken(a, b) ==
    /\ a # b
    /\ ~Falsy(req[a].x_user_id)
    /\ req[a].x_user_id = req[b].x_user_id
    /\ UserStmts(req[a]) # << >> /\ UserStmts(req[b]) # << >>
    /\ UserStmts(req[a])[1].out = OK /\ UserStmts(req[b])[1].out = OK
    /\ req[a].user_res = << >> /\ req[b].user_res = << >>

\* C11: two requests with the same previously unseen token that interleave the
\* resolver's lookup and insert never leave more than one users row for the
\* token; once both resolvers are over (and the database was up) there is
\* exactly one row, the winner has been let through and the loser has been
\* answered with the HTTP 500 the resolver makes of the primary-key conflict.
C11_RacingResolvers ==
    \A a, b \in Reqs :
        SameUnseenToken(a, b) =>
            /\ UserRows(req[a].x_user_id) <= 1
            /\ (Resolved(req[a]) /\ Resolved(req[b]) /\ UsersUp(req[a]) /\ UsersUp(req[b])) =>
                  /\ UserRows(req[a].x_user_id) = 1
                  /\ \A c \in {a, b} :
                        \/ req[c].user_id = req[c].x_user_id
                        \/ /\ req[c].pc = "responded" /\ req[c].status = 500
                           /\ Last(UserStmts(req[c])).out = UniqueViolation
                  /\ \E c \in {a, b} : req[c].user_id = req[c].x_user_id

\* Both lookups found nothing, both inserted: the second insert hit the primary key.
C11_Witness ==
    \E a, b \in Reqs :
        /\ SameUnseenToken(a, b)
        /\ Resolved(req[a]) /\ Resolved(req[b])
        /\ req[a].user_id = "u3"
        /\ req[b].pc = "responded" /\ req[b].status = 500
        /\ Last(UserStmts(req[b])).op = "insert"
        /\ Last(UserStmts(req[b])).out = UniqueViolation

\* C12 as stated: every call of the resolver with a non-empty token has, once
\* it is over, issued exactly one write on users.
C12_AsStated ==
    \A r \in Reqs :
        (Resolved(req[r]) /\ ~Falsy(req[r].x_user_id)) => Len(UserWrites(req[r])) = 1

\* C12 amended: a call of the resolver with a non-empty token whose lookup succeeded
\* issues exactly one write on users: an insert when the lookup found no row
\* (the row it creates has user_type guest), an update when it found one; a
\* call that returns, returns the token; a call without a token, or with an
\* empty one, is answered 400 without any statement.
C12_OneWrite ==
    \A r \in Reqs :
        LET q == req[r]
        IN  /\ (Resolved(q) /\ Falsy(q.x_user_id)) =>
                  /\ q.pc = "responded" /\ q.status = 400
                  /\ q.log = << >> /\ q.user_id = NoUser
            /\ (Resolved(q) /\ ~Falsy(q.x_user_id) /\ UserStmts(q)[1].out = OK) =>
                  /\ Len(UserWrites(q)) = 1
                  /\ UserWrites(q)[1].op = (IF q.user_res = << >> THEN "insert" ELSE "update")
                  /\ UserWrites(q)[1].val = q.x_user_id
            /\ (Resolved(q) /\ q.user_id # NoUser) =>
                  /\ q.user_id = q.x_user_id
                  /\ UserRows(q.x_user_id) = 1
                  /\ (q.user_res = << >>) => SelectUser(q.x_user_id)[1].user_type = "guest"

\* An unseen identity has been inserted by one call and updated by the next.
C12_Witness ==
    \E a, b \in Reqs :
        /\ a # b
        /\ req[a].user_id = "u3" /\ req[b].user_id = "u3"
        /\ UserWrites(req[a])[1].op = "insert"
        /\ UserWrites(req[b])[1].op = "update"
        /\ SelectUser("u3")[1].last_active_at > 1

\* C13: a resolver whose lookup or write failed has answered 500, has returned
\* no user id and its handler has issued no statement; a request whose handler
\* runs has a users write that succeeded.
C13_NoSilentAuth ==
    \A r \in Reqs :
        LET q == req[r]
        IN  /\ (\E i \in 1..Len(q.log) : q.log[i].table = "users" /\ q.log[i].out # OK) =>
                  /\ q.pc = "responded" /\ q.status = 500
                  /\ q.user_id = NoUser
                  /\ \A i \in 1..Len(q.log) : q.log[i].table = "users"
            /\ (q.pc # "idle" /\ (q.user_id # NoUser \/ UserStmts(q) # q.log)) =>
                  \E i \in 1..Len(q.log) :
                      q.log[i].table = "users" /\ IsWrite(q.log[i]) /\ q.log[i].out = OK

\* The write of a resolver failed after its lookup had succeeded.
C13_Witness ==
    \E r \in Reqs :
        /\ Len(UserStmts(req[r])) = 2
        /\ UserStmts(req[r])[2].out = DbDown
        /\ req[r].pc = "responded" /\ req[r].status = 500

\* ---------------------------------------------------------------- chat turn properties
\* The rows of the turn's thread that were inserted from the turn's user
\* message on (ids are handed out in insertion order).
AddedRows(q) == SelectSeq(messages, LAMBDA m : m.thread_id = q.thread_id /\ m.id >= q.user_msg_id)

MessageInserts(q) == SelectSeq(q.log, LAMBDA e : e.op = "insert" /\ e.table = "messages")

\* The turn ran to its end: it closed with DONE.
Completed(q) == q.kind = "chat" /\ q.pc = "closed" /\ q.frames # << >> /\ Last(q.frames).k = "DONE"

\* C14: a chat turn of the owner with both translation flags false that closes
\* with DONE has inserted exactly two messages, asked for no translation and
\* emitted no translation phase frame and no fragment outside the responding
\* phase; while the thread exists, the two rows are the only ones added to it:
\* a user row with the raw content and an assistant row whose content is the
\* concatenated model output.
C14_PlainTurn ==
    \A r \in Reqs :
        LET q == req[r]
        IN  (Completed(q) /\ ~q.translate_to_english /\ ~q.auto_translate_responses) =>
                /\ Len(MessageInserts(q)) = 2
                /\ \A i \in 1..Len(MessageInserts(q)) : MessageInserts(q)[i].out = OK
                /\ \A i \in 1..Len(q.llm) : q.llm[i].fn = "generate_chat_stream"
                /\ Len(GenCalls(q)) = 1
                /\ \A i \in 1..Len(q.frames) :
                      /\ q.frames[i].k = "PHASE" => q.frames[i].v = "RESPONDING"
                      /\ q.frames[i].k = "fragment" => PhaseAt(q.frames, i) = "RESPONDING"
                /\ (q.thread_id \in DOMAIN threads) =>
                      /\ Len(AddedRows(q)) = 2
                      /\ AddedRows(q)[1].id = q.user_msg_id
                      /\ AddedRows(q)[1].role = "user"
                      /\ AddedRows(q)[1].content = q.user_content
                      /\ AddedRows(q)[2].id = q.asst_msg_id
                      /\ AddedRows(q)[2].role = "assistant"
                      /\ AddedRows(q)[2].content = PhaseText(q.frames, "RESPONDING")

\* A plain turn has closed with DONE after two reply fragments and its rows are in the table.
C14_Witness ==
    \E r \in Reqs :
        /\ Completed(req[r]) /\ ~req[r].translate_to_english /\ ~req[r].auto_translate_responses
        /\ req[r].thread_id \in DOMAIN threads
        /\ Len(AddedRows(req[r])) = 2
        /\ AddedRows(req[r])[2].content = <<"y", "x">>

\* C15: every messages, bookmarks and bookmarked_threads row references a
\* thread that exists, whatever the interleaving of delete_thread with a chat
\* turn, a bookmark creation or a bookmark-toggle.
C15_NoOrphans ==
    /\ \A i \in 1..Len(messages) : messages[i].thread_id \in DOMAIN threads
    /\ \A b \in bookmarks : b.thread_id \in DOMAIN threads
    /\ \A i \in 1..Len(bookmarked_threads) : bookmarked_threads[i] \in DOMAIN threads

\* The thread was deleted under a running turn: its user message went with the
\* thread and its next insert was refused by the foreign key.
C15_Witness ==
    /\ "t1" \notin DOMAIN threads
    /\ \E r \in Reqs :
          /\ req[r].kind = "chat" /\ req[r].user_msg_id # 0
          /\ MessageInserts(req[r]) # << >>
          /\ Last(MessageInserts(req[r])).out = FkViolation

\* The step of request r is the failure of the LLM stream it is reading: the
\* turn was inside a stream and moved without a fragment, a statement or a
\* cancellation.
LlmFailureStep(r) ==
    /\ req[r].pc \in {"utr", "gen", "rtr"}
    /\ req'[r] # req[r]
    /\ req'[r].nfrag = req[r].nfrag
    /\ req'[r].log = req[r].log
    /\ ~req'[r].cancelled

C16_Step ==
    \A r \in Reqs :
        /\ LlmFailureStep(r) =>
              /\ messages' = messages
              /\ req'[r].pc = "closed"
              /\ req'[r].llm = req[r].llm
              /\ \/ req'[r].frames = req[r].frames
                 \/ /\ Len(req'[r].frames) = Len(req[r].frames) + 1
                    /\ SubSeq(req'[r].frames, 1, Len(req[r].frames)) = req[r].frames
                    /\ Last(req'[r].frames).k = "error"
        /\ (req[r].kind = "chat" /\ req[r].pc = "closed") => req'[r] = req[r]

\* C16: when an LLM stream of a chat turn fails, the failing step changes no
\* row, repeats no frame (it appends at most the error frame) and issues no
\* LLM call or statement; the turn is closed by it and from then on emits
\* nothing, calls nothing and writes nothing.
C16_NoRetry == [][C16_Step]_vars

\* The generation stream failed after both rows of the turn had been persisted.
C16_Witness ==
    \E r \in Reqs :
        LET q == req[r]
        IN  /\ q.kind = "chat" /\ q.pc = "closed" /\ ~q.cancelled
            /\ q.frames # << >> /\ Last(q.frames).k = "error" /\ Last(q.frames).v = LlmDown
            /\ GenCalls(q) # << >>
            /\ RowOf(q.user_msg_id) # << >> /\ RowOf(q.asst_msg_id) # << >>
            /\ RowOf(q.asst_msg_id)[1].content = EmptyText

\* The statements of a chat request on threads: the first is chat_endpoint's
\* lookup, the second the orchestrator's own.
ThreadLookups(q) == SelectSeq(q.log, LAMBDA e : e.op = "select" /\ e.table = "threads")

MessageWrites(q) == SelectSeq(q.log, LAMBDA e : IsWrite(e) /\ e.table = "messages")

\* The step of request r is the orchestrator's ownership lookup, and the lookup
\* finds no thread, finds another owner, or fails.
RefusedLookupStep(r) ==
    /\ req[r].pc = "sg_verify"
    /\ req[r].thread_id \notin {"", Sentinel}
    /\ req'[r] # req[r]
    /\ \/ Last(req'[r].log).out # OK
       \/ SelectThread(req[r].thread_id) = << >>
       \/ SelectThread(req[r].thread_id)[1].user_id # req[r].user_id

C17_Step ==
    \A r \in Reqs :
        RefusedLookupStep(r) =>
            /\ req'[r].pc = "closed"
            /\ req'[r].frames # << >> /\ Last(req'[r].frames).k = "error"

\* A turn whose own ownership lookup failed has issued no insert or update on messages.
C17_NoWriteAfterFailedLookup ==
    \A r \in Reqs :
        LET q == req[r]
        IN  (q.kind = "chat" /\ Len(ThreadLookups(q)) >= 2 /\ ThreadLookups(q)[2].out # OK) =>
                MessageWrites(q) = << >>

\* C17 as stated: when the orchestrator's ownership lookup for a non-sentinel
\* thread id finds no thread, finds a different owner or fails, the turn
\* closes with an error frame in that step and never issues an insert or
\* update on messages.
C17_LookupStops == [][C17_Step]_vars /\ [](C17_NoWriteAfterFailedLookup)

\* The assistant rows the table holds for the turn's thread from the turn's
\* user message on.
AssistantRows(q) == SelectSeq(AddedRows(q), LAMBDA m : m.role = "assistant")

\* The statements of the turn from its second insert on messages (the
\* placeholder) on.
FromPlaceholder(q) ==
    LET ins == {i \in 1..Len(q.log) : q.log[i].op = "insert" /\ q.log[i].table = "messages"
                                        /\ q.log[i].out = OK}
    IN  IF Cardinality(ins) < 2 THEN << >> ELSE SubSeq(q.log, Max(ins), Len(q.log))

\* C18: a chat turn inserts its assistant message once, with empty content;
\* the table never holds a second assistant row of the turn; every write of
\* the turn after that insert is an update keyed by the placeholder's id; and
\* the row's content is still empty while the generation stream has not ended.
C18_PlaceholderOnce ==
    \A r \in Reqs :
        LET q == req[r]
        IN  (q.kind = "chat" /\ q.user_msg_id # 0) =>
                /\ Len(AssistantRows(q)) <= 1
                /\ \A i \in 1..Len(AssistantRows(q)) : AssistantRows(q)[i].id = q.asst_msg_id
                /\ Len(SelectSeq(MessageInserts(q), LAMBDA e : e.out = OK)) <= 2
                /\ \A i \in 2..Len(FromPlaceholder(q)) :
                      IsWrite(FromPlaceholder(q)[i]) =>
                          /\ FromPlaceholder(q)[i].op = "update"
                          /\ FromPlaceholder(q)[i].table = "messages"
                          /\ FromPlaceholder(q)[i].col = "id"
                          /\ FromPlaceholder(q)[i].val = q.asst_msg_id
                /\ (q.pc \in {"y_assistant_message_id", "y_phase_responding", "gen"}) =>
                      \A i \in 1..Len(AssistantRows(q)) : AssistantRows(q)[i].content = EmptyText

\* The placeholder has been updated twice (content, translated_content) and is
\* still the turn's only assistant row.
C18_Witness ==
    \E r \in Reqs :
        LET q == req[r]
        IN  /\ Completed(q) /\ q.auto_translate_responses
            /\ Len(AssistantRows(q)) = 1
            /\ AssistantRows(q)[1].content = <<"x">>
            /\ AssistantRows(q)[1].translated_content = <<"y">>

\* The positions of the USER_MESSAGE frames: the confirmation, then the full snapshot.
UserMessageFrames(fs) == SelectSeq([i \in 1..Len(fs) |-> i], LAMBDA i : fs[i].k = "USER_MESSAGE")

\* In every state: the full snapshot comes after every fragment of the user
\* translation, the turn's UPDATE of the user row's translated_content has
\* been executed, and the snapshot carries the concatenated fragments.
C19_SnapshotOrder ==
    \A r \in Reqs :
        LET q == req[r]
            um == UserMessageFrames(q.frames)
        IN  (q.kind = "chat" /\ Len(um) >= 2) =>
                /\ q.translate_to_english
                /\ Len(um) = 2
                /\ \A i \in 1..Len(q.frames) :
                      IsFragmentOf(q.frames, i, "TRANSLATING") => i < um[2]
                /\ \E i \in 1..Len(q.log) :
                      /\ q.log[i].op = "update" /\ q.log[i].table = "messages"
                      /\ q.log[i].out = OK /\ q.log[i].val = q.user_msg_id
                /\ q.frames[um[2]].v.translatedContent = PhaseText(q.frames, "TRANSLATING")

\* In the step that emits the full snapshot: the user row, if the thread still
\* has it, holds the translatedContent the snapshot carries.
C19_Step ==
    \A r \in Reqs :
        (/\ req[r].kind = "chat"
         /\ Len(UserMessageFrames(req[r].frames)) = 1
         /\ Len(UserMessageFrames(req'[r].frames)) = 2) =>
            LET row == SelectSeq(messages', LAMBDA m : m.id = req[r].user_msg_id)
            IN  row # << >> =>
                    row[1].translated_content = Last(req'[r].frames).v.translatedContent

\* C19: the full-snapshot USER_MESSAGE frame of a translating turn is emitted
\* after the last user-translation fragment and after the UPDATE of the user
\* row's translated_content, and the translatedContent it carries is the value
\* the row holds at that moment.
C19_Snapshot == [](C19_SnapshotOrder) /\ [][C19_Step]_vars

\* The snapshot with a two-fragment translation has been emitted.
C19_Witness ==
    \E r \in Reqs :
        LET q == req[r]
            um == UserMessageFrames(q.frames)
        IN  /\ q.kind = "chat" /\ Len(um) = 2
            /\ q.frames[um[2]].v.translatedContent = <<"x", "y">>
            /\ RowOf(q.user_msg_id) # << >>
            /\ RowOf(q.user_msg_id)[1].translated_content = <<"x", "y">>

Min(a, b) == IF a <= b THEN a ELSE b

\* The rows of the turn's thread other than the turn's own two, oldest first.
PriorRows(q) ==
    SelectSeq(messages, LAMBDA m : m.thread_id = q.thread_id
                                     /\ m.id # q.user_msg_id /\ m.id # q.asst_msg_id)

\* What the history shows of a row of the thread.
Shown(m, translating) ==
    IF translating /\ m.role = "user" /\ m.translated_content \notin {NULL, EmptyText}
    THEN m.translated_content
    ELSE m.content

\* C20: the history handed to generation ends with one user entry holding the
\* turn's generation input; the entries before it are the newest rows of the
\* thread other than the turn's own two, oldest first, as many as fit in the
\* window of HistoryLimit rows next to those two; each shows the row's role
\* and its content, or its translated_content when the turn translates and the
\* row is a user message with a non-empty translation.
C20_HistoryWindow ==
    \A r \in Reqs :
        LET q == req[r]
        IN  (q.kind = "chat" /\ GenCalls(q) # << >>) =>
                LET h == GenCalls(q)[1].arg
                    prior == PriorRows(q)
                    k == Len(h) - 1
                IN  /\ Len(h) >= 1
                    /\ Last(h) = [role |-> "user", content |-> q.llm_input_content]
                    /\ k <= HistoryLimit
                    /\ k = Min(Len(prior), HistoryLimit - 2)
                    /\ \A j \in 1..k :
                          LET m == prior[Len(prior) - k + j]
                          IN  /\ h[j].role = m.role
                              /\ h[j].content = Shown(m, q.translate_to_english)

\* A translating turn on a thread with more rows than the window holds: the
\* oldest rows are cut off and a past user message is shown by its translation.
C20_Witness ==
    \E r \in Reqs :
        LET q == req[r]
        IN  /\ q.kind = "chat" /\ GenCalls(q) # << >> /\ q.translate_to_english
            /\ Len(PriorRows(q)) > HistoryLimit - 2
            /\ Len(GenCalls(q)[1].arg) = HistoryLimit - 1
            /\ \E j \in 1..(HistoryLimit - 2) :
                  /\ GenCalls(q)[1].arg[j].role = "user"
                  /\ GenCalls(q)[1].arg[j].content[1] = "z"

\* ---------------------------------------------------------------- response translation
\* The turn's requests for a translation to Korean (the response translation).
KoreanCalls(q) == SelectSeq(q.llm, LAMBDA c : c.fn = "translate_text_stream" /\ c.target = "Korean")

\* The turn's executed updates keyed by the placeholder's id.
PlaceholderUpdates(q) ==
    SelectSeq(q.log, LAMBDA e : /\ e.op = "update" /\ e.table = "messages" /\ e.out = OK
                                /\ e.val = q.asst_msg_id)

\* C21: a chat turn asks for the response translation at most once, only with
\* autoTranslateResponses and only after its UPDATE of the placeholder's content
\* has been executed, and the text it sends is the accumulated reply, which is
\* the content the placeholder row holds; when such a turn closes with DONE the
\* row's translated_content is the concatenation of the response-translation
\* fragments in emission order (as long as no /translate request rewrote it);
\* a turn without the flag sends no response translation, updates the
\* placeholder at most once and leaves its translated_content NULL.
C21_ResponseTranslation ==
    \A r \in Reqs :
        LET q == req[r]
            row == RowOf(q.asst_msg_id)
        IN  (q.kind = "chat" /\ q.asst_msg_id # 0) =>
                /\ Len(KoreanCalls(q)) <= 1
                /\ (\E i \in 1..Len(q.frames) :
                        q.frames[i].k = "PHASE" /\ q.frames[i].v = "TRANSLATING_RESPONSE") =>
                      q.auto_translate_responses /\ ContentPersisted(q)
                /\ KoreanCalls(q) # << >> =>
                      /\ q.auto_translate_responses
                      /\ ContentPersisted(q)
                      /\ KoreanCalls(q)[1].arg = q.assistant_content
                      /\ KoreanCalls(q)[1].arg = PhaseText(q.frames, "RESPONDING")
                      /\ row # << >> => row[1].content = KoreanCalls(q)[1].arg
                /\ (Completed(q) /\ q.auto_translate_responses) =>
                      /\ Len(KoreanCalls(q)) = 1
                      /\ Len(PlaceholderUpdates(q)) = 2
                      /\ (row # << >> /\ ~Retranslated(q.asst_msg_id)) =>
                            row[1].translated_content = PhaseText(q.frames, "TRANSLATING_RESPONSE")
                /\ ~q.auto_translate_responses =>
                      /\ KoreanCalls(q) = << >>
                      /\ Len(PlaceholderUpdates(q)) <= 1
                      /\ (row # << >> /\ ~Retranslated(q.asst_msg_id)) =>
                            row[1].translated_content = NULL

\* A turn with the flag closed with DONE after a one-fragment reply was sent
\* for translation and a one-fragment translation was persisted.
C21_Witness ==
    \E r \in Reqs :
        LET q == req[r]
        IN  /\ Completed(q) /\ q.auto_translate_responses
            /\ KoreanCalls(q) # << >> /\ KoreanCalls(q)[1].arg = <<"y">>
            /\ RowOf(q.asst_msg_id) # << >>
            /\ RowOf(q.asst_msg_id)[1].content = <<"y">>
            /\ RowOf(q.asst_msg_id)[1].translated_content = <<"x">>

\* ---------------------------------------------------------------- concurrent turns
\* The ids of the rows a turn has inserted.
OwnIds(q) == {q.user_msg_id, q.asst_msg_id} \ {0}

\* The turn's executed UPDATE of its user row's translated_content.
UserTranslationWritten(q) ==
    \E i \in 1..Len(q.log) :
        /\ q.log[i].op = "update" /\ q.log[i].table = "messages" /\ q.log[i].out = OK
        /\ q.log[i].val = q.user_msg_id

\* C22: with two chat turns running concurrently, on one thread or on two, the
\* turns' rows are distinct, every row of the table is a row of one turn, every
\* update a turn issues is keyed by the id of a row that turn inserted, and each
\* row holds exactly what its own turn has written so far: the user row the
\* turn's content and, once written, the turn's user translation; the
\* assistant row the empty placeholder content until the turn's UPDATE and the
\* turn's accumulated reply after it, and a translated_content of NULL until
\* the turn has written its own response translation.
C22_TurnsIsolated ==
    /\ \A a, b \in Reqs : a # b => OwnIds(req[a]) \cap OwnIds(req[b]) = {}
    /\ \A i \in 1..Len(messages) : \E r \in Reqs : messages[i].id \in OwnIds(req[r])
    /\ \A r \in Reqs :
        LET q == req[r]
            urow == RowOf(q.user_msg_id)
            arow == RowOf(q.asst_msg_id)
        IN  q.kind = "chat" =>
                /\ \A i \in 1..Len(q.log) :
                      (q.log[i].op = "update" /\ q.log[i].table = "messages") =>
                          q.log[i].col = "id" /\ q.log[i].val \in OwnIds(q)
                /\ q.user_msg_id # 0 =>
                      /\ Len(urow) = 1
                      /\ urow[1].thread_id = q.thread_id
                      /\ urow[1].role = "user"
                      /\ urow[1].content = q.user_content
                      /\ urow[1].translated_content =
                            IF UserTranslationWritten(q) THEN q.user_translation ELSE NULL
                /\ q.asst_msg_id # 0 =>
                      /\ Len(arow) = 1
                      /\ arow[1].thread_id = q.thread_id
                      /\ arow[1].role = "assistant"
                      /\ arow[1].content =
                            IF ContentPersisted(q) THEN q.assistant_content ELSE EmptyText
                      /\ arow[1].translated_content =
                            IF Len(PlaceholderUpdates(q)) = 2 THEN q.assistant_translation ELSE NULL

\* Two turns on the same thread ran interleaved (the second turn inserted its
\* user message between the first turn's two inserts), both closed with DONE,
\* and their assistant rows hold different replies.
C22_Witness ==
    /\ Completed(req[1]) /\ Completed(req[2])
    /\ req[1].thread_id = req[2].thread_id
    /\ req[1].user_msg_id < req[2].user_msg_id
    /\ req[2].user_msg_id < req[1].asst_msg_id
    /\ RowOf(req[1].asst_msg_id) # << >> /\ RowOf(req[2].asst_msg_id) # << >>
    /\ RowOf(req[1].asst_msg_id)[1].content = <<"x">>
    /\ RowOf(req[1].asst_msg_id)[1].translated_content = <<"y">>
    /\ RowOf(req[2].asst_msg_id)[1].content = <<"y", "x">>

\* ---------------------------------------------------------------- gateway properties
IsFilteredWrite(st) ==
    /\ st.where # << >>
    /\ st.where[1] = "eq"
    /\ IdentifierRe(st.where[2])

\* In every state: each execute() call that took the UPDATE or the DELETE
\* branch either carried an equality filter on a well-formed column or raised
\* an exception of the gateway itself without reaching the database.
C23_WritesFiltered ==
    \A r \in Reqs :
        \A i \in 1..Len(req[r].executed) :
            LET st == req[r].executed[i]
            IN  st.op \in {"update", "delete"} =>
                    \/ IsFilteredWrite(st)
                    \/ ~ReachedDatabase(st) /\ st.out \in {AttributeError, InvalidColumn}

\* In every step of a Table object: when the object would write (update() or
\* delete() called, insert() not) and has no filter, an execute() call raises,
\* reaches no database and leaves the table as it is; a step that changes or
\* removes a row is an execute() call whose UPDATE or DELETE is filtered, and
\* every row that does not satisfy the filter is still in the table, unchanged.
C23_Step ==
    \A r \in Reqs :
        LET q == req[r]
            n == Len(q.executed)
        IN  q.kind = "table" =>
                /\ (/\ ~HasAttr(q, "_eq_col") /\ ~HasAttr(q, "_insert_data")
                    /\ (HasAttr(q, "_update_data") \/ HasAttr(q, "_delete"))) =>
                        /\ messages' = messages
                        /\ Len(req'[r].executed) = n + 1 =>
                              /\ ~ReachedDatabase(req'[r].executed[n + 1])
                              /\ req'[r].raised # NoException
                /\ (\E i \in 1..Len(messages) :
                        \A j \in 1..Len(messages') : messages'[j] # messages[i]) =>
                        /\ Len(req'[r].executed) = n + 1
                        /\ req'[r].executed[n + 1].op \in {"update", "delete"}
                        /\ IsFilteredWrite(req'[r].executed[n + 1])
                        /\ \A i \in 1..Len(messages) :
                              ~Selected(messages[i], req'[r].executed[n + 1].where) =>
                                  \E j \in 1..Len(messages') : messages'[j] = messages[i]

\* C23: the gateway never hands an UPDATE or a DELETE without an equality
\* filter to the database: for any sequence of builder calls on a Table,
\* execute() issues the write with WHERE column = value, touching only the rows
\* that satisfy the filter, or raises before any statement is issued.
C23_NoUnfilteredWrite == [](C23_WritesFiltered) /\ [][C23_Step]_vars

\* A Table object was first executed with update() and no eq(), which raised
\* and changed nothing, then with eq("id", 1): the row with that id holds the
\* new content, the other row is as it was.
C23_Witness ==
    \E r \in Reqs :
        /\ req[r].kind = "table"
        /\ Len(req[r].executed) = 2
        /\ req[r].executed[1].op = "update"
        /\ req[r].executed[1].out = AttributeError
        /\ req[r].executed[2].op = "update"
        /\ req[r].executed[2].where = <<"eq", "id", 1>>
        /\ req[r].executed[2].out = OK
        /\ Len(messages) = 2
        /\ messages[1].content = <<"w">>
        /\ messages[2].content = <<"x">>

\* ---------------------------------------------------------------- history content
\* C24: the history a chat turn hands to generation holds no assistant entry
\* with empty content, whatever other turns on the thread were cancelled after
\* inserting their placeholder or are still running.
C24_NoEmptyAssistantEntry ==
    \A r \in Reqs :
        LET q == req[r]
        IN  (q.kind = "chat" /\ GenCalls(q) # << >>) =>
                \A j \in 1..Len(GenCalls(q)[1].arg) :
                    GenCalls(q)[1].arg[j].role = "assistant" =>
                        GenCalls(q)[1].arg[j].content # EmptyText

====
